---- MODULE Spec2Model ----
(***************************************************************************)
(* A model of the asynchronous core of my_mysql:                           *)
(*   - monad::IO<T> and its combinators   (tests/include/io_monad.hpp)     *)
(*   - MonadicMysqlSession::run_query      (include/mysql_monad.hpp)       *)
(*   - MysqlPoolWrapper::stop              (include/mysql_base.hpp)        *)
(*   - beast_pool::ConnectionPool          (beast_connection_pool.hpp)     *)
(*   - client_async::http_session_pooled   (http_session_pooled.hpp)       *)
(*   - sql::MysqlSessionState's row helpers (include/mysql_base.hpp)       *)
(*   - IO<T>::pure run more than once      (tests/include/io_monad.hpp)    *)
(*   - client_async::session               (tests/include/http_session.hpp)*)
(* Each part has its own variables and its own specification; the          *)
(* variables of the other parts stay parked at their initial values.       *)
(***************************************************************************)
EXTENDS Integers, Sequences, FiniteSets, TLC

\* ------------------------------------------------------------------------
\* Bounds of the model
\* ------------------------------------------------------------------------
\* longest duration (in clock ticks) given to timeout()/delay()
MaxDur == 2
\* last clock value the timeout model explores
MaxTime == 4
\* largest max_attempts given to retry_exponential_if (an int: -1 and 0 are
\* tried too)
MaxAttempts == 3
\* largest initial_delay (in clock ticks) given to retry_exponential_if
MaxInitialDelay == 2
\* last clock value the retry model explores
MaxRetryTime == 6
\* number of get_connection calls in flight together
MaxAcq == 2
\* largest MysqlConfig::max_size
MaxPoolSize == 2
\* number of calls of MysqlPoolWrapper::stop()
MaxStop == 2
\* number of http_session_pooled runs (each creates at most one Connection)
MaxSess == 2
\* number of runs when every session goes to the same plain origin directly,
\* and how many of them may be under way together
MaxDirect == 4
MaxInFlight == 3
\* number of runs when the sessions fill the deques of two origins
MaxShrink == 3
\* largest PoolConfig values tried
MaxIdlePerOrigin == 2
MaxTotalIdle == 2
MaxKeepAlive == 1
MaxReapInterval == 1
\* largest number of result sets, of rows in one of them, and of columns
MaxSets == 2
MaxRows == 2
MaxCols == 2
\* width in bits the model gives to int64_t, uint64_t, int and size_t (the
\* sizes above must stay below 2^(WordBits - 1))
WordBits == 3
\* number of times one IO<T>::pure, its clones and copies are run
MaxRuns == 3

\* ------------------------------------------------------------------------
\* db_errors::SQL_EXEC and db_errors::PARSE
\* ------------------------------------------------------------------------
SQL_FAILED == 1000
NO_ROWS == 1001
MULTIPLE_RESULTS == 1002
NULL_ID == 1003
INDEX_OUT_OF_BOUNDS == 1004
BAD_VALUE_ACCESS == 2000

\* ------------------------------------------------------------------------
\* monad::Error and monad::Result<T, Error>
\* ------------------------------------------------------------------------
Ok(v) == [ok |-> TRUE, val |-> v, code |-> 0, what |-> ""]

Err(c, w) == [ok |-> FALSE, val |-> 0, code |-> c, what |-> w]

\* values and errors an upstream IO may yield
Values == {1, 2}

UpstreamErrors == {Err(7, "boom"), Err(9, "io")}

UpstreamResults == {Ok(v) : v \in Values} \cup UpstreamErrors

\* ========================================================================
\* State.  Part 1: one run() of io.timeout(d)
\* ========================================================================
VARIABLES
  concurrent,   \* TRUE: the io_context is run by more than one thread
  duration,     \* the argument of timeout()
  innerKind,    \* "sync" | "async" | "delayT" | "delayVoid"
  innerRes,     \* the Result the inner IO yields
  delayDur,     \* the argument of delay()
  now,          \* steady_clock
  runAt,        \* clock value at which run() was called, -1 before
  fired,        \* *fired, the shared plain bool
  timer,        \* the timeout's steady_timer: "none" | "armed" | "queued" | "taken"
  timerEc,      \* error_code its handler is (to be) invoked with: "ok" | "aborted"
  dtimer,       \* the delay's steady_timer: "none" | "armed" | "queued" | "taken"
  pcTimer,      \* position of the timer handler: "idle" | "set" | "done"
  pcInner,      \* position of the inner completion lambda: "idle" | "check" | "set" | "done"
  ready,        \* handlers the io_context holds ready to run, oldest first
  delivered,    \* every invocation of the continuation given to run(): <<[res, at]>>
  events        \* order in which the two handlers began and ended

timeoutVars == <<concurrent, duration, innerKind, innerRes, delayDur, now, runAt,
                 fired, timer, timerEc, dtimer, pcTimer, pcInner, ready, delivered,
                 events>>

\* Part 2: one run() of a combinator over a synchronous upstream
VARIABLES
  cKind,   \* the combinator (or chain) that was run last, "none" before
  cUp,     \* the Result the upstream IO yielded
  cF,      \* what the callable f does when invoked
  cG,      \* what the callable g does when invoked (chains)
  cCb,     \* what the continuation given to run() does when invoked
  eff      \* the Effect of that run()

combVars == <<cKind, cUp, cF, cG, cCb, eff>>

\* Part 3: one run() of io.retry_exponential_if(max_attempts, initial_delay, should_retry)
VARIABLES
  max_attempts,   \* the argument max_attempts (an int: may be zero or negative)
  initial_delay,  \* the argument initial_delay, in clock ticks
  should_retry,   \* the predicate, as a function from Error to BOOLEAN
  attempt,        \* *attempt
  current_delay,  \* the argument of the try_run call in progress
  rNow,           \* steady_clock
  rPc,            \* "idle" | "running" | "waiting" | "done"
  rTimer,         \* delay_for's steady_timer: "none" | "armed" | "queued"
  rDeadline,      \* its expiry
  rStarts,        \* clock value at which each attempt was started
  rEnds,          \* clock value at which each attempt yielded its Result
  rYields,        \* the Result each attempt yielded
  rWaits,         \* the duration given to each delay_for
  rDelivered      \* every invocation of the continuation given to run()

retryVars == <<max_attempts, initial_delay, should_retry, attempt, current_delay,
               rNow, rPc, rTimer, rDeadline, rStarts, rEnds, rYields, rWaits,
               rDelivered>>

\* Part 4: MonadicMysqlSession::run_query over a MysqlPoolWrapper
VARIABLES
  mConcurrent,   \* TRUE: the pool's io_context is run by more than one thread
  BB_MYSQL_VERBOSE, \* TRUE: built with BB_MYSQL_VERBOSE defined
  max_size,      \* MysqlConfig::max_size, the pool's connection limit
  poolInUse,     \* connections the pool has handed out and not got back
  active_conns_, \* MysqlPoolWrapper::active_conns_
  acq,           \* per run_query: the overload and what its generator returns,
                 \* done_flag, the two timers, the position of the two
                 \* handlers, what the pool completed with, the states
                 \* get_connection delivered, the async_execute, what the
                 \* IO handed to its continuation and the connections the
                 \* caller holds
  stopped_,      \* MysqlPoolWrapper::stopped_
  cancels,       \* calls of pool_.cancel() so far
  stopPc         \* per call of stop(): the statement it is at

mysqlCfg == <<mConcurrent, BB_MYSQL_VERBOSE, max_size>>

stopVars == <<stopped_, cancels, stopPc>>

mysqlVars == <<mysqlCfg, poolInUse, active_conns_, acq, stopVars>>

\* Part 5: beast_pool::ConnectionPool and the http_session_pooled runs over it
VARIABLES
  cfg_,           \* PoolConfig: max_idle_per_origin, max_total_idle,
                  \* idle_keep_alive, idle_reap_interval
  ssl_ctx_,       \* TRUE: the pool was given a TLS context
  conns,          \* every Connection: origin_, is_ssl(), socket open, busy_,
                  \* the ticks since last_used_ (counted while it is idle),
                  \* and the destination it tunnels to
  idle_,          \* origin -> deque of idle connections (front first)
  strand_,        \* handlers posted to the strand, oldest first
  reaper_armed_,
  reap_timer_,    \* ticks left of the outstanding reaper wait, -1 when none
  sess            \* every http_session_pooled: origin_, proxy_, the stage it
                  \* waits in, conn_, and the calls made to callback_

httpVars == <<cfg_, ssl_ctx_, conns, idle_, strand_, reaper_armed_, reap_timer_,
              sess>>

\* Part 6: the helpers of one sql::MysqlSessionState
VARIABLES
  results,   \* MysqlSessionState::results: result sets, each a sequence of rows
  error,     \* has_error()
  rowCall    \* the helper called last, its arguments and what it returned

rowVars == <<results, error, rowCall>>

\* Part 7: one IO<T>::pure(v), its clones and copies
VARIABLES
  pureT,     \* T: "trivial" (moving it copies) | "movable" (std::string, ...)
  pureV,     \* the argument of pure()
  pureVal,   \* *val, the T all copies of the thunk share
  pureRuns   \* every run(): the IO it was called on and the Result delivered

pureVars == <<pureT, pureV, pureVal, pureRuns>>

\* Part 8: one client_async::session (not pooled)
VARIABLES
  plain      \* proxy_setting_, no_modify_req_, whether it is a session_ssl,
             \* the url's port, the port in the request's Host header, the
             \* operation it waits for, the network operations it started
             \* and the calls made to callback_

laterVars == <<rowVars, pureVars, plain>>

vars == <<timeoutVars, combVars, retryVars, mysqlVars, httpVars, laterVars>>

\* what the actions of one part leave alone
notTimeout == <<combVars, retryVars, mysqlVars, httpVars, laterVars>>

notComb == <<timeoutVars, retryVars, mysqlVars, httpVars, laterVars>>

notRetry == <<timeoutVars, combVars, mysqlVars, httpVars, laterVars>>

notMysql == <<timeoutVars, combVars, retryVars, httpVars, laterVars>>

notHttp == <<timeoutVars, combVars, retryVars, mysqlVars, laterVars>>

earlierVars == <<timeoutVars, combVars, retryVars, mysqlVars, httpVars>>

notRows == <<earlierVars, pureVars, plain>>

notPure == <<earlierVars, rowVars, plain>>

notPlain == <<earlierVars, rowVars, pureVars>>

\* ------------------------------------------------------------------------
\* Exceptions, effects and callables (used by part 2)
\* ------------------------------------------------------------------------
\* An exception in flight: none, one derived from std::exception (it has a
\* what()), or one that is not (throw 42), which catch (const std::exception&)
\* does not catch.
NoExc == [kind |-> "none", what |-> ""]

StdExc(m) == [kind |-> "std", what |-> m]

OtherExc == [kind |-> "other", what |-> ""]

\* What running a piece of code did: the Results it handed to the user's
\* continuation (in order), the user callables it invoked (in order), and the
\* exception that left it.
Effect(c, x, i) == [calls |-> c, exc |-> x, invoked |-> i]

\* what a user callable does when invoked: return (a value, an Error, or an IO
\* that yields res), or throw
Returns(r) == [kind |-> "ret", res |-> r, what |-> ""]

\* ------------------------------------------------------------------------
\* Each part at rest, while another part is explored
\* ------------------------------------------------------------------------
TimeoutParked ==
  /\ concurrent = FALSE
  /\ duration = 0
  /\ innerKind = "sync"
  /\ innerRes = Ok(1)
  /\ delayDur = 0
  /\ now = 0
  /\ runAt = -1
  /\ fired = FALSE
  /\ timer = "none"
  /\ timerEc = "ok"
  /\ dtimer = "none"
  /\ pcTimer = "idle"
  /\ pcInner = "idle"
  /\ ready = <<>>
  /\ delivered = <<>>
  /\ events = <<>>

NoCallable == Returns(Ok(1))

CombParked ==
  /\ cKind = "none"
  /\ cUp = Ok(1)
  /\ cF = NoCallable
  /\ cG = NoCallable
  /\ cCb = "returns"
  /\ eff = Effect(<<>>, NoExc, <<>>)

RetryParked ==
  /\ max_attempts = 1
  /\ initial_delay = 0
  /\ should_retry = [e \in UpstreamErrors |-> FALSE]
  /\ attempt = 0
  /\ current_delay = 0
  /\ rNow = 0
  /\ rPc = "idle"
  /\ rTimer = "none"
  /\ rDeadline = 0
  /\ rStarts = <<>>
  /\ rEnds = <<>>
  /\ rYields = <<>>
  /\ rWaits = <<>>
  /\ rDelivered = <<>>

\* the locals of one get_connection thunk before it is run
AcqIdle ==
  [done_flag |-> FALSE, timeout_timer |-> "none", ec |-> "ok",
   watchdog_timer |-> "none", pcTimeout |-> "idle", pcConn |-> "idle",
   got |-> "none", delivered |-> <<>>, held |-> 0,
   overload |-> "sql", gen |-> "ok", afterStop |-> FALSE, exec |-> "none",
   out |-> <<>>]

Acqs == 1..MaxAcq

Stoppers == 1..MaxStop

MysqlParked ==
  /\ mConcurrent = FALSE
  /\ BB_MYSQL_VERBOSE = FALSE
  /\ max_size = 1
  /\ poolInUse = 0
  /\ active_conns_ = 0
  /\ acq = [a \in Acqs |-> AcqIdle]
  /\ stopped_ = FALSE
  /\ cancels = 0
  /\ stopPc = [t \in Stoppers |-> "idle"]

\* Origin (the port is the same everywhere and left out)
HttpA == [scheme |-> "http", host |-> "a"]

HttpsB == [scheme |-> "https", host |-> "b"]

ProxyOrigin == [scheme |-> "http", host |-> "p"]

Origins == {HttpA, HttpsB, ProxyOrigin}

Sessions == 1..MaxSess

\* a Connection that was not created yet, and a session before run()
NoConn ==
  [born |-> FALSE, origin |-> HttpA, ssl |-> FALSE, open |-> FALSE, busy |-> FALSE,
   age |-> 0, tunnel |-> "none"]

NewSession ==
  [origin |-> HttpA, proxy |-> FALSE, stage |-> "new", conn |-> 0, calls |-> <<>>]

HttpRest ==
  /\ conns = [c \in Sessions |-> NoConn]
  /\ idle_ = [o \in Origins |-> <<>>]
  /\ strand_ = <<>>
  /\ reaper_armed_ = FALSE
  /\ reap_timer_ = -1
  /\ sess = [s \in Sessions |-> NewSession]

HttpParked ==
  /\ cfg_ = [max_idle_per_origin |-> 1, max_total_idle |-> 1, idle_keep_alive |-> 1,
             idle_reap_interval |-> 0]
  /\ ssl_ctx_ = FALSE
  /\ HttpRest

\* no helper of the MysqlSessionState was called yet
NoRowCall == [fn |-> "none", T |-> "none", r |-> 0, j |-> 0, out |-> Ok(<<>>)]

RowsParked ==
  /\ results = <<>>
  /\ error = FALSE
  /\ rowCall = NoRowCall

PureParked ==
  /\ pureT = "trivial"
  /\ pureV = 1
  /\ pureVal = 1
  /\ pureRuns = <<>>

\* a session before run()
NewPlain ==
  [proxy |-> FALSE, no_modify_req |-> FALSE, ssl |-> FALSE, port |-> "",
   host |-> "unset", stage |-> "new", net |-> <<>>, calls |-> <<>>]

PlainParked == plain = NewPlain

LaterParked == RowsParked /\ PureParked /\ PlainParked

\* ========================================================================
\* Part 1: IO<T>::timeout over an inner IO, with IO<T>::delay / IO<void>::delay
\* ========================================================================
Deliver(r) == Append(delivered, [res |-> r, at |-> now])

TimeoutInit ==
  /\ concurrent \in BOOLEAN
  /\ duration \in 0..MaxDur
  /\ innerKind \in {"sync", "async", "delayT", "delayVoid"}
  /\ innerRes \in UpstreamResults
  /\ delayDur \in 0..MaxDur
  /\ now = 0
  /\ runAt = -1
  /\ fired = FALSE
  /\ timer = "none"
  /\ timerEc = "ok"
  /\ dtimer = "none"
  /\ pcTimer = "idle"
  /\ pcInner = "idle"
  /\ ready = <<>>
  /\ delivered = <<>>
  /\ events = <<>>

\* the thunk of timeout(): arm the timer, then self.run(lambda).  An inner IO
\* that is pure/fail, or IO<T>::delay over one, calls the lambda inline.
TimeoutRun ==
  /\ runAt = -1
  /\ runAt' = now
  /\ timer' = "armed"
  /\ dtimer' = IF innerKind \in {"delayT", "delayVoid"} THEN "armed" ELSE "none"
  /\ pcInner' = IF innerKind \in {"sync", "delayT"} THEN "check" ELSE "idle"
  /\ events' = IF innerKind \in {"sync", "delayT"}
                 THEN Append(events, "inner_begin") ELSE events
  /\ UNCHANGED <<concurrent, duration, innerKind, innerRes, delayDur, now, fired,
                 timerEc, pcTimer, ready, delivered>>
  /\ UNCHANGED notTimeout

\* a ready handler may be taken by a thread: any one when several threads run
\* the io_context, the oldest one when a single thread does
CanTake(h) ==
  /\ \E i \in 1..Len(ready) : ready[i] = h
  /\ concurrent \/ ready[1] = h

Without(h) == SelectSeq(ready, LAMBDA x : x # h)

\* with a single thread a handler runs to its end before the next one starts
TimerMayStart == concurrent \/ pcInner \notin {"check", "set"}

InnerMayStart == concurrent \/ pcTimer # "set"

\* steady_clock advances; a timer that is due is moved to the ready queue first
Tick ==
  /\ now < MaxTime
  /\ runAt # -1
  /\ ~(timer = "armed" /\ now >= runAt + duration)
  /\ ~(dtimer = "armed" /\ now >= runAt + delayDur)
  /\ now' = now + 1
  /\ UNCHANGED <<concurrent, duration, innerKind, innerRes, delayDur, runAt, fired,
                 timer, timerEc, dtimer, pcTimer, pcInner, ready, delivered, events>>
  /\ UNCHANGED notTimeout

\* the reactor finds the timeout's timer expired: its handler becomes ready, ec = 0
TimerExpire ==
  /\ timer = "armed"
  /\ now >= runAt + duration
  /\ timer' = "queued"
  /\ timerEc' = "ok"
  /\ ready' = Append(ready, "timer")
  /\ UNCHANGED <<concurrent, duration, innerKind, innerRes, delayDur, now, runAt,
                 fired, dtimer, pcTimer, pcInner, delivered, events>>
  /\ UNCHANGED notTimeout

\* timer handler, first statement: if (*fired) return;
TimerCheck ==
  /\ timer = "queued"
  /\ pcTimer = "idle"
  /\ CanTake("timer")
  /\ TimerMayStart
  /\ timer' = "taken"
  /\ ready' = Without("timer")
  /\ pcTimer' = IF fired THEN "done" ELSE "set"
  /\ events' = IF fired THEN events \o <<"timer_begin", "timer_end">>
                         ELSE Append(events, "timer_begin")
  /\ UNCHANGED <<concurrent, duration, innerKind, innerRes, delayDur, now, runAt,
                 fired, timerEc, dtimer, pcInner, delivered>>
  /\ UNCHANGED notTimeout

\* TimerFire as it would be without the guard being set by the timer arm
TimerFire_KeepsGuardClear ==
  /\ pcTimer = "set"
  /\ fired' = fired
  /\ delivered' = IF timerEc = "ok" THEN Deliver(Err(2, "Operation timed out"))
                                    ELSE delivered
  /\ pcTimer' = "done"
  /\ events' = Append(events, "timer_end")
  /\ UNCHANGED <<concurrent, duration, innerKind, innerRes, delayDur, now, runAt,
                 timer, timerEc, dtimer, pcInner, ready>>
  /\ UNCHANGED notTimeout

\* timer handler, the rest: *fired = true; if (!ec) cb(Error{2, ...});
TimerFire ==
  /\ pcTimer = "set"
  /\ fired' = TRUE
  /\ delivered' = IF timerEc = "ok" THEN Deliver(Err(2, "Operation timed out"))
                                    ELSE delivered
  /\ pcTimer' = "done"
  /\ events' = Append(events, "timer_end")
  /\ UNCHANGED <<concurrent, duration, innerKind, innerRes, delayDur, now, runAt,
                 timer, timerEc, dtimer, pcInner, ready>>
  /\ UNCHANGED notTimeout

\* an inner IO that completes through the io_context (a socket, a pool, ...)
\* invokes the lambda given to self.run at some later moment
AsyncComplete ==
  /\ innerKind = "async"
  /\ runAt # -1
  /\ pcInner = "idle"
  /\ InnerMayStart
  /\ pcInner' = "check"
  /\ events' = Append(events, "inner_begin")
  /\ UNCHANGED <<concurrent, duration, innerKind, innerRes, delayDur, now, runAt,
                 fired, timer, timerEc, dtimer, pcTimer, ready, delivered>>
  /\ UNCHANGED notTimeout

\* the reactor finds the delay's timer expired
DelayTimerExpire ==
  /\ dtimer = "armed"
  /\ now >= runAt + delayDur
  /\ dtimer' = "queued"
  /\ ready' = Append(ready, "delay")
  /\ UNCHANGED <<concurrent, duration, innerKind, innerRes, delayDur, now, runAt,
                 fired, timer, timerEc, pcTimer, pcInner, delivered, events>>
  /\ UNCHANGED notTimeout

\* IO<T>::delay: the wait handler calls cb only for a timer error; the upstream
\* was already run by the thunk (TimeoutRun), so an expiry does nothing
DelayTHandler ==
  /\ innerKind = "delayT"
  /\ dtimer = "queued"
  /\ CanTake("delay")
  /\ dtimer' = "taken"
  /\ ready' = Without("delay")
  /\ UNCHANGED <<concurrent, duration, innerKind, innerRes, delayDur, now, runAt,
                 fired, timer, timerEc, pcTimer, pcInner, delivered, events>>
  /\ UNCHANGED notTimeout

\* IO<void>::delay = delay_for(d).then(self): the wait handler yields monostate,
\* then() runs self, and self invokes the lambda given to self.run
DelayForHandler ==
  /\ innerKind = "delayVoid"
  /\ dtimer = "queued"
  /\ CanTake("delay")
  /\ InnerMayStart
  /\ dtimer' = "taken"
  /\ ready' = Without("delay")
  /\ pcInner' = "check"
  /\ events' = Append(events, "inner_begin")
  /\ UNCHANGED <<concurrent, duration, innerKind, innerRes, delayDur, now, runAt,
                 fired, timer, timerEc, pcTimer, delivered>>
  /\ UNCHANGED notTimeout

\* inner lambda, first statement: if (*fired) return;
InnerCheck ==
  /\ pcInner = "check"
  /\ pcInner' = IF fired THEN "done" ELSE "set"
  /\ events' = IF fired THEN Append(events, "inner_end") ELSE events
  /\ UNCHANGED <<concurrent, duration, innerKind, innerRes, delayDur, now, runAt,
                 fired, timer, timerEc, dtimer, pcTimer, ready, delivered>>
  /\ UNCHANGED notTimeout

\* inner lambda, the rest: *fired = true; cancel_timer(*timer); cb(std::move(r));
\* cancelling a wait that has not expired makes its handler ready with
\* operation_aborted; a handler that is already ready keeps its ec
InnerFire ==
  /\ pcInner = "set"
  /\ fired' = TRUE
  /\ IF timer = "armed"
       THEN /\ timer' = "queued"
            /\ timerEc' = "aborted"
            /\ ready' = Append(ready, "timer")
       ELSE UNCHANGED <<timer, timerEc, ready>>
  /\ delivered' = Deliver(innerRes)
  /\ pcInner' = "done"
  /\ events' = Append(events, "inner_end")
  /\ UNCHANGED <<concurrent, duration, innerKind, innerRes, delayDur, now, runAt,
                 dtimer, pcTimer>>
  /\ UNCHANGED notTimeout

TimeoutNext ==
  \/ TimeoutRun
  \/ Tick
  \/ TimerExpire
  \/ TimerCheck
  \/ TimerFire
  \/ AsyncComplete
  \/ DelayTimerExpire
  \/ DelayTHandler
  \/ DelayForHandler
  \/ InnerCheck
  \/ InnerFire

InitTimeout == TimeoutInit /\ CombParked /\ RetryParked /\ MysqlParked /\ HttpParked
  /\ LaterParked

SpecTimeout == InitTimeout /\ [][TimeoutNext]_vars

\* the Results handed to the continuation, in order
Results == [i \in 1..Len(delivered) |-> delivered[i].res]

TimedOut == Err(2, "Operation timed out")

\* the timer handler ran from its first to its last statement before the inner
\* lambda was entered, and the other way round
TimerFirst ==
  /\ Len(events) >= 2
  /\ events[1] = "timer_begin"
  /\ events[2] = "timer_end"

InnerFirst ==
  /\ Len(events) >= 2
  /\ events[1] = "inner_begin"
  /\ events[2] = "inner_end"

\* C1: under every interleaving of the timer handler and the inner completion,
\* also on different threads, the continuation given to run() is invoked
\* exactly once: never twice, and once when both handlers have run.
C1_TimeoutExactlyOnce ==
  /\ Len(delivered) <= 1
  /\ (pcTimer = "done" /\ pcInner = "done") => Len(delivered) = 1

\* C5: delay(d) runs the upstream only after d has elapsed, so no Ok result is
\* delivered before runAt + d, and pure(v).delay(D).timeout(t) with t < D
\* never delivers Ok(v).
C5_DelayDefersResult ==
  innerKind \in {"delayT", "delayVoid"} =>
    /\ \A i \in 1..Len(delivered) :
         delivered[i].res.ok => delivered[i].at >= runAt + delayDur
    /\ duration < delayDur => \A i \in 1..Len(delivered) : ~delivered[i].res.ok

\* C6: if the timer handler runs before the inner IO completes, the result is
\* Err{2, "Operation timed out"} and the later inner result is dropped; if the
\* inner IO completes first, the timer is cancelled and the inner result is
\* delivered unchanged.
C6_TimeoutFirstWins ==
  /\ TimerFirst => Results = <<TimedOut>>
  /\ InnerFirst => (Results = <<innerRes>> /\ timer # "armed")

\* the timer won and the late inner completion has come and been dropped
C6_Witness ==
  /\ TimerFirst
  /\ pcInner = "done"
  /\ Results = <<TimedOut>>

\* ========================================================================
\* Part 2: the synchronous combinators map, then, catch_then, map_err,
\*         finally, finally_then of IO<T> / IO<void>
\* ========================================================================
Messages == {"boom", "io", "f failed", "cb failed", "bad_function_call"}

Codes == {7, 9, -1, -2, -3}

\* every Result that can reach a continuation
AllResults == {Ok(v) : v \in Values} \cup {Err(c, w) : c \in Codes, w \in Messages}

\* e1; e2 -- e2 is not reached when e1 threw
AndThen(e1, e2) ==
  IF e1.exc.kind # "none" THEN e1
  ELSE Effect(e1.calls \o e2.calls, e2.exc, e1.invoked \o e2.invoked)

\* the continuation the caller gave to run(): it records the Result and then
\* returns, or throws
CbModes == {"returns", "throws_std", "throws_other"}

UserCb(mode) ==
  [res \in AllResults |->
     Effect(<<res>>,
            CASE mode = "returns" -> NoExc
              [] mode = "throws_std" -> StdExc("cb failed")
              [] OTHER -> OtherExc,
            <<>>)]

ThrowsStd == [kind |-> "throw_std", res |-> Ok(1), what |-> "f failed"]

ThrowsOther == [kind |-> "throw_other", res |-> Ok(1), what |-> ""]

\* f: T -> U
ValueOutcomes == {Returns(Ok(v)) : v \in Values} \cup {ThrowsStd, ThrowsOther}

\* f: T -> IO<U>, Error -> IO<T>, () -> IO<void>: the IO returned is pure or fail
IOOutcomes == {Returns(r) : r \in UpstreamResults} \cup {ThrowsStd, ThrowsOther}

\* f: Error -> Error
ErrorOutcomes == {Returns(e) : e \in UpstreamErrors} \cup {ThrowsStd, ThrowsOther}

\* invoking the callable called name
Invoke(name, fOut) ==
  Effect(<<>>,
         CASE fOut.kind = "ret" -> NoExc
           [] fOut.kind = "throw_std" -> StdExc(fOut.what)
           [] OTHER -> OtherExc,
         <<name>>)

\* result.error() handed on as a Result of the next type
ErrorOf(r) == Err(r.code, r.what)

\* the handler of catch (const std::exception& e): the exception is consumed
\* and the handler's code runs
Caught(body, handler) ==
  Effect(body.calls \o handler.calls, handler.exc, body.invoked \o handler.invoked)

\* a std::function that was moved from is empty: invoking it throws
\* std::bad_function_call
MovedFromCb == Effect(<<>>, StdExc("bad_function_call"), <<>>)

\* MapLambda as it would be with no try/catch around f
MapLambda_NoCatch(r, name, fOut, k) ==
  IF r.ok
    THEN AndThen(Invoke(name, fOut), k[fOut.res])
    ELSE k[ErrorOf(r)]

\* the lambda map() gives to prev->run; k[res] is the effect of cb(res)
MapLambda(r, name, fOut, k) ==
  IF r.ok
    THEN LET call == Invoke(name, fOut)
             body == AndThen(call, k[fOut.res])
         IN  IF body.exc.kind = "std"
               THEN Caught(body, k[Err(-1, body.exc.what)])
               ELSE body
    ELSE k[ErrorOf(r)]

\* ThenLambda as it would be without the is_ok() test: f runs on an error too
ThenLambda_RunsFOnErr(r, name, fOut, k) ==
  LET call == Invoke(name, fOut)
      body == AndThen(call, k[fOut.res])
  IN  IF body.exc.kind = "std"
        THEN IF call.exc.kind = "std"
               THEN Caught(body, k[Err(-2, body.exc.what)])
               ELSE Caught(body, MovedFromCb)
        ELSE body

\* the lambda then() gives to prev->run: f(value).run(std::move(cb)); cb is
\* moved into run() only once f has returned
ThenLambda(r, name, fOut, k) ==
  IF r.ok
    THEN LET call == Invoke(name, fOut)
             body == AndThen(call, k[fOut.res])
         IN  IF body.exc.kind = "std"
               THEN IF call.exc.kind = "std"
                      THEN Caught(body, k[Err(-2, body.exc.what)])
                      ELSE Caught(body, MovedFromCb)
               ELSE body
    ELSE k[ErrorOf(r)]

\* the lambda catch_then() gives to prev->run
CatchThenLambda(r, name, fOut, k) ==
  IF ~r.ok
    THEN LET call == Invoke(name, fOut)
             body == AndThen(call, k[fOut.res])
         IN  IF body.exc.kind = "std"
               THEN IF call.exc.kind = "std"
                      THEN Caught(body, k[Err(-3, body.exc.what)])
                      ELSE Caught(body, MovedFromCb)
               ELSE body
    ELSE k[r]

\* the lambda map_err() gives to prev.run: nothing is caught
MapErrLambda(r, name, fOut, k) ==
  IF ~r.ok
    THEN AndThen(Invoke(name, fOut), k[fOut.res])
    ELSE k[r]

\* the lambda finally() gives to prev.run: f(); cb(std::move(result));
FinallyLambda(r, name, fOut, k) ==
  AndThen(Invoke(name, fOut), k[r])

\* the lambda finally_then() gives to prev.run: the cleanup IO's result is
\* ignored and the original result handed on; result and cb are moved into the
\* cleanup's callback only once f has returned
FinallyThenLambda(r, name, fOut, k) ==
  LET call == Invoke(name, fOut)
      body == AndThen(call, k[r])
  IN  IF body.exc.kind = "std"
        THEN IF call.exc.kind = "std"
               THEN Caught(body, k[r])
               ELSE Caught(body, MovedFromCb)
        ELSE body

CombInit == CombParked

\* io.map(f).run(cb), upstream pure(v) or fail(e)
RunMap ==
  \E r \in UpstreamResults, f \in ValueOutcomes, m \in CbModes :
    /\ cKind = "none"
    /\ cKind' = "map"
    /\ cUp' = r
    /\ cF' = f
    /\ cG' = NoCallable
    /\ cCb' = m
    /\ eff' = MapLambda(r, "f", f, UserCb(m))
    /\ UNCHANGED notComb

RunThen ==
  \E r \in UpstreamResults, f \in IOOutcomes, m \in CbModes :
    /\ cKind = "none"
    /\ cKind' = "then"
    /\ cUp' = r
    /\ cF' = f
    /\ cG' = NoCallable
    /\ cCb' = m
    /\ eff' = ThenLambda(r, "f", f, UserCb(m))
    /\ UNCHANGED notComb

RunCatchThen ==
  \E r \in UpstreamResults, f \in IOOutcomes, m \in CbModes :
    /\ cKind = "none"
    /\ cKind' = "catch_then"
    /\ cUp' = r
    /\ cF' = f
    /\ cG' = NoCallable
    /\ cCb' = m
    /\ eff' = CatchThenLambda(r, "f", f, UserCb(m))
    /\ UNCHANGED notComb

RunMapErr ==
  \E r \in UpstreamResults, f \in ErrorOutcomes, m \in CbModes :
    /\ cKind = "none"
    /\ cKind' = "map_err"
    /\ cUp' = r
    /\ cF' = f
    /\ cG' = NoCallable
    /\ cCb' = m
    /\ eff' = MapErrLambda(r, "f", f, UserCb(m))
    /\ UNCHANGED notComb

RunFinally ==
  \E r \in UpstreamResults, f \in {Returns(Ok(1)), ThrowsStd, ThrowsOther},
     m \in CbModes :
    /\ cKind = "none"
    /\ cKind' = "finally"
    /\ cUp' = r
    /\ cF' = f
    /\ cG' = NoCallable
    /\ cCb' = m
    /\ eff' = FinallyLambda(r, "f", f, UserCb(m))
    /\ UNCHANGED notComb

RunFinallyThen ==
  \E r \in UpstreamResults, f \in IOOutcomes, m \in CbModes :
    /\ cKind = "none"
    /\ cKind' = "finally_then"
    /\ cUp' = r
    /\ cF' = f
    /\ cG' = NoCallable
    /\ cCb' = m
    /\ eff' = FinallyThenLambda(r, "f", f, UserCb(m))
    /\ UNCHANGED notComb

\* a.then(f).then(g).run(cb): the continuation of a.then(f) is the lambda
\* of then(g)
RunThenThen ==
  \E r \in UpstreamResults, f \in IOOutcomes, g \in IOOutcomes, m \in CbModes :
    /\ cKind = "none"
    /\ cKind' = "then_then"
    /\ cUp' = r
    /\ cF' = f
    /\ cG' = g
    /\ cCb' = m
    /\ eff' = ThenLambda(r, "f", f,
                 [x \in AllResults |-> ThenLambda(x, "g", g, UserCb(m))])
    /\ UNCHANGED notComb

CombNext ==
  \/ RunMap
  \/ RunThen
  \/ RunCatchThen
  \/ RunMapErr
  \/ RunFinally
  \/ RunFinallyThen
  \/ RunThenThen

InitComb == CombInit /\ TimeoutParked /\ RetryParked /\ MysqlParked /\ HttpParked
  /\ LaterParked

SpecComb == InitComb /\ [][CombNext]_vars

\* ------------------------------------------------------------------------
\* Claims about the combinators
\* ------------------------------------------------------------------------
SingleCombinators ==
  {"map", "then", "catch_then", "map_err", "finally", "finally_then"}

\* C2: for each of map, then, catch_then, map_err, finally, finally_then and
\* every outcome of the upstream, of the callable and of the continuation
\* (also one that throws), one run() invokes the continuation exactly once.
C2_CombinatorsExactlyOnce ==
  cKind \in SingleCombinators => Len(eff.calls) = 1

\* the code each combinator reserves for an exception of its callable
ReservedCode(kind) ==
  CASE kind = "map" -> -1
    [] kind = "then" -> -2
    [] kind = "catch_then" -> -3

C8_ErrSkipsThenChain ==
  (cKind = "then_then" /\ ~cUp.ok)
  => (eff.invoked = <<>> /\ eff.calls = <<cUp>>)

\* a failed with Err{7, "boom"} ahead of two callables that would have run
C8_Witness ==
  /\ cKind = "then_then"
  /\ cUp = Err(7, "boom")
  /\ cF.kind = "ret"
  /\ cG.kind = "ret"
  /\ eff.calls = <<Err(7, "boom")>>

\* C11: for finally(f) and finally_then(f), whatever the cleanup does (returns,
\* yields an IO that fails, throws), the continuation is handed the upstream
\* result, the same Ok value or the same Err, and nothing else.
C11_FinallyKeepsResult ==
  cKind \in {"finally", "finally_then"} => eff.calls = <<cUp>>

\* ========================================================================
\* Part 3: IO<T>::retry_exponential_if and IO<void>::retry_exponential_if
\* ========================================================================
RetryInit ==
  /\ max_attempts \in -1..MaxAttempts
  /\ initial_delay \in 0..MaxInitialDelay
  /\ should_retry \in [UpstreamErrors -> BOOLEAN]
  /\ attempt = 0
  /\ current_delay = 0
  /\ rNow = 0
  /\ rPc = "idle"
  /\ rTimer = "none"
  /\ rDeadline = 0
  /\ rStarts = <<>>
  /\ rEnds = <<>>
  /\ rYields = <<>>
  /\ rWaits = <<>>
  /\ rDelivered = <<>>

\* (*try_run)(d): (*attempt)++; self_ptr->clone().run(lambda)
TryRun(d) ==
  /\ attempt' = attempt + 1
  /\ current_delay' = d
  /\ rStarts' = Append(rStarts, rNow)
  /\ rPc' = "running"

\* the thunk: attempt = 0; (*try_run)(initial_delay)
RetryRun ==
  /\ rPc = "idle"
  /\ TryRun(initial_delay)
  /\ UNCHANGED <<max_attempts, initial_delay, should_retry, rNow, rTimer, rDeadline,
                 rEnds, rYields, rWaits, rDelivered>>
  /\ UNCHANGED notRetry

\* steady_clock advances while an attempt runs or a wait is pending; a timer
\* that is due is moved to the ready queue first
RetryTick ==
  /\ rPc \in {"running", "waiting"}
  /\ rNow < MaxRetryTime
  /\ ~(rTimer = "armed" /\ rNow >= rDeadline)
  /\ rNow' = rNow + 1
  /\ UNCHANGED <<max_attempts, initial_delay, should_retry, attempt, current_delay,
                 rPc, rTimer, rDeadline, rStarts, rEnds, rYields, rWaits, rDelivered>>
  /\ UNCHANGED notRetry

\* StopsRetrying with the attempt bound off by one
StopsRetrying_OffByOne(r) ==
  \/ r.ok
  \/ attempt > max_attempts
  \/ ~should_retry[r]

\* r.is_ok() || *attempt >= max_attempts || !should_retry(r.error())
StopsRetrying(r) ==
  \/ r.ok
  \/ attempt >= max_attempts
  \/ ~should_retry[r]

\* the lambda given to the attempt's run(): deliver r, or start delay_for
AttemptYields ==
  /\ rPc = "running"
  /\ \E r \in UpstreamResults :
       /\ rYields' = Append(rYields, r)
       /\ rEnds' = Append(rEnds, rNow)
       /\ IF StopsRetrying(r)
            THEN /\ rDelivered' = Append(rDelivered, r)
                 /\ rPc' = "done"
                 /\ UNCHANGED <<rTimer, rDeadline, rWaits>>
            ELSE /\ rTimer' = "armed"
                 /\ rDeadline' = rNow + current_delay
                 /\ rWaits' = Append(rWaits, current_delay)
                 /\ rPc' = "waiting"
                 /\ UNCHANGED rDelivered
  /\ UNCHANGED <<max_attempts, initial_delay, should_retry, attempt, current_delay,
                 rNow, rStarts>>
  /\ UNCHANGED notRetry

\* the reactor finds delay_for's timer expired: its handler becomes ready
RetryTimerExpire ==
  /\ rTimer = "armed"
  /\ rNow >= rDeadline
  /\ rTimer' = "queued"
  /\ UNCHANGED <<max_attempts, initial_delay, should_retry, attempt, current_delay,
                 rNow, rPc, rDeadline, rStarts, rEnds, rYields, rWaits, rDelivered>>
  /\ UNCHANGED notRetry

\* NextDelay without the doubling
NextDelay_Constant(d) == d

\* current_delay * 2
NextDelay(d) == d * 2

\* delay_for's wait handler yields monostate to the lambda, which calls
\* (*try_run)(current_delay * 2)
RetryTimerHandler ==
  /\ rTimer = "queued"
  /\ rTimer' = "none"
  /\ TryRun(NextDelay(current_delay))
  /\ UNCHANGED <<max_attempts, initial_delay, should_retry, rNow, rDeadline, rEnds,
                 rYields, rWaits, rDelivered>>
  /\ UNCHANGED notRetry

RetryNext ==
  \/ RetryRun
  \/ RetryTick
  \/ AttemptYields
  \/ RetryTimerExpire
  \/ RetryTimerHandler

InitRetry == RetryInit /\ TimeoutParked /\ CombParked /\ MysqlParked /\ HttpParked
  /\ LaterParked

SpecRetry == InitRetry /\ [][RetryNext]_vars

\* ------------------------------------------------------------------------
\* Claims about retry_exponential_if
\* ------------------------------------------------------------------------
\* an attempt after which the operator must not try again
Final(r) == r.ok \/ ~should_retry[r]

\* no attempt follows a success or a failure should_retry rejects, and the
\* continuation gets one Result: that of the last attempt
RetryStopsAndDelivers ==
  /\ Len(rStarts) = attempt
  /\ \A i \in 1..Len(rYields) : Final(rYields[i]) => i = attempt
  /\ \A i \in 1..Len(rYields) : rYields[i].ok => \A j \in 1..(i - 1) : ~rYields[j].ok
  /\ rPc = "done" <=> Len(rDelivered) = 1
  /\ Len(rDelivered) <= 1
  /\ rPc = "done" => rDelivered = <<rYields[attempt]>>

Max(a, b) == IF a >= b THEN a ELSE b

\* C9 (as stated): retry_exponential_if(n, d0, pred) runs the inner IO at most
\* n times for every n (not at all for n <= 0), makes no further attempt after
\* a success or after pred returned false, and then delivers the first success
\* or else the last error.
C9_AtMostNAttempts ==
  /\ attempt <= Max(0, max_attempts)
  /\ RetryStopsAndDelivers

\* C9 (amended): the inner IO is run at most max(1, n) times: once even when
\* n <= 0; the rest as stated.
C9_AtMostMaxOneNAttempts ==
  /\ attempt <= Max(1, max_attempts)
  /\ RetryStopsAndDelivers

\* every attempt failed retryably until max_attempts was used up, and a run
\* with max_attempts <= 0 that made its one attempt
C9_Witness ==
  /\ rPc = "done"
  /\ max_attempts = MaxAttempts
  /\ attempt = max_attempts
  /\ ~rDelivered[1].ok
  /\ should_retry[rDelivered[1]]

\* C10: the wait between attempt k and attempt k+1 is initial_delay * 2^(k-1),
\* and attempt k+1 does not start before that wait, begun when attempt k
\* yielded, has elapsed.
C10_WaitsDouble ==
  /\ \A k \in 1..Len(rWaits) : rWaits[k] = initial_delay * 2^(k - 1)
  /\ \A k \in 1..Len(rWaits) :
       k + 1 <= Len(rStarts) => rStarts[k + 1] >= rEnds[k] + rWaits[k]

C10_Witness ==
  /\ initial_delay >= 1
  /\ Len(rStarts) >= 3
  /\ rWaits[2] = 2 * initial_delay
  /\ rStarts[3] = rEnds[2] + rWaits[2]

\* ========================================================================
\* Part 4: MonadicMysqlSession::run_query, get_connection, execute_sql and
\* MysqlPoolWrapper::stop
\* ========================================================================
MysqlInit ==
  /\ mConcurrent \in BOOLEAN
  /\ BB_MYSQL_VERBOSE \in BOOLEAN
  /\ max_size \in 1..MaxPoolSize
  /\ poolInUse = 0
  /\ active_conns_ = 0
  /\ acq = [a \in Acqs |-> AcqIdle]
  /\ stopped_ = FALSE
  /\ cancels = 0
  /\ stopPc = [t \in Stoppers |-> "idle"]

\* with a single thread a handler runs to its end before the next one starts
MysqlMayStart ==
  mConcurrent \/ \A b \in Acqs : acq[b].pcTimeout # "store" /\ acq[b].pcConn # "store"

\* the SessionState handed to the continuation
TimedOutState == [error |-> "timed_out", conn |-> FALSE]

PoolErrorState == [error |-> "pool_error", conn |-> FALSE]

PoolCancelledState == [error |-> "pool_cancelled", conn |-> FALSE]

ConnectedState == [error |-> "none", conn |-> TRUE]

\* error_code::value() of the errors a SessionState carries; message() is
\* modelled by the error's name. timed_out is ETIMEDOUT; the pool's and the
\* server's codes are the library's and stand here as distinct nonzero values
ErrorValue(e) ==
  CASE e = "none" -> 0
    [] e = "timed_out" -> 110
    [] e = "pool_error" -> 17
    [] e = "pool_cancelled" -> 18
    [] OTHER -> 1064

\* what run_query's IO hands to its continuation: Ok(SessionState) or Err(Error)
OkState(s) == [ok |-> TRUE, code |-> 0, error |-> s.error, conn |-> s.conn]

Fail(c, w) == [ok |-> FALSE, code |-> c, error |-> w, conn |-> FALSE]

\* the Err a sql_generator returns
GeneratorErr == Fail(5, "bad input")

\* the thunk of get_connection: done_flag = false, arm the watchdog and the
\* timeout timer, launch async_get_connection
GetConnection(t) ==
  [t EXCEPT !.done_flag = FALSE,
            !.watchdog_timer = "armed",
            !.timeout_timer = "armed",
            !.pcConn = "pending"]

\* execute_sql(state, sql).run(cb): the state moves into state_ptr and
\* async_execute is launched on its connection
ExecuteSql(t) == [acq |-> [t EXCEPT !.exec = "pending"], back |-> 0]

\* the lambda run_query(sql) chains on get_connection with then(): a state with
\* an error goes on as pure(state), any other goes to execute_sql. back is the
\* number of connections that return to the pool when the lambda returns
RunQuerySql(t, s) ==
  IF s.error # "none"
    THEN [acq |-> [t EXCEPT !.out = Append(@, OkState(s))], back |-> 0]
    ELSE ExecuteSql(t)

\* RunQueryGen as it would be if a generator's Err were not looked at
RunQueryGen_IgnoresGenErr(t, s) ==
  IF s.error # "none"
    THEN [acq |-> [t EXCEPT !.out = Append(@, Fail(1, s.error))], back |-> 0]
    ELSE ExecuteSql(t)

\* the lambda run_query(sql_generator) chains on get_connection with then():
\* fail(Error{1, message}) for a state with an error; fail(sql.error()) when
\* the generator returns Err, where the state and its pooled_connection are
\* destroyed as the lambda returns; execute_sql otherwise
RunQueryGen(t, s) ==
  IF s.error # "none"
    THEN [acq |-> [t EXCEPT !.out = Append(@, Fail(1, s.error))], back |-> 0]
    ELSE IF t.gen = "err"
           THEN [acq |-> [t EXCEPT !.out = Append(@, GeneratorErr),
                                   !.got = "released"],
                 back |-> 1]
           ELSE ExecuteSql(t)

\* cb(Ok(state)) of get_connection: the continuation is the lambda of the
\* overload that was run
Continue(t, s) ==
  IF t.overload = "sql" THEN RunQuerySql(t, s) ELSE RunQueryGen(t, s)

\* some stop() has returned
StopReturned == \E t \in Stoppers : stopPc[t] = "returned"

\* session->run_query(sql, timeout).run(cb) or run_query(sql_generator,
\* timeout).run(cb): runs the thunk of get_connection
RunQuery(a) ==
  /\ acq[a].pcConn = "idle"
  /\ IF a = 1 THEN TRUE ELSE acq[a - 1].pcConn # "idle"
  /\ \E ov \in {"sql", "generator"} :
       \E g \in IF ov = "generator" THEN {"ok", "err"} ELSE {"ok"} :
         acq' = [acq EXCEPT ![a] = GetConnection([@ EXCEPT !.overload = ov,
                                                           !.gen = g,
                                                           !.afterStop = StopReturned])]
  /\ UNCHANGED <<mysqlCfg, poolInUse, active_conns_, stopVars>>
  /\ UNCHANGED notMysql

\* the watchdog wait expires (it is never cancelled): the handler returns if
\* done_flag is set and re-arms the one second wait otherwise
WatchdogFires(a) ==
  /\ acq[a].watchdog_timer = "armed"
  /\ acq' = [acq EXCEPT ![a].watchdog_timer =
                          IF acq[a].done_flag THEN "stopped" ELSE "armed"]
  /\ UNCHANGED <<mysqlCfg, poolInUse, active_conns_, stopVars>>
  /\ UNCHANGED notMysql

\* the pool completes async_get_connection: with pool_cancelled once the pool
\* was cancelled, else with a connection when it has one to give, or with an
\* error; the completion handler becomes ready
PoolCompletes(a) ==
  /\ acq[a].pcConn = "pending"
  /\ IF cancels > 0
       THEN /\ acq' = [acq EXCEPT ![a].pcConn = "ready", ![a].got = "cancelled"]
            /\ UNCHANGED poolInUse
       ELSE \/ /\ poolInUse < max_size
               /\ poolInUse' = poolInUse + 1
               /\ acq' = [acq EXCEPT ![a].pcConn = "ready", ![a].got = "conn"]
            \/ /\ acq' = [acq EXCEPT ![a].pcConn = "ready", ![a].got = "error"]
               /\ UNCHANGED poolInUse
  /\ UNCHANGED <<mysqlCfg, active_conns_, stopVars>>
  /\ UNCHANGED notMysql

\* ConnHandlerLoad as it would be without the test of done_flag
ConnHandlerLoad_NoGuard(a) ==
  /\ acq[a].pcConn = "ready"
  /\ MysqlMayStart
  /\ acq' = [acq EXCEPT ![a].pcConn = "store"]
  /\ UNCHANGED <<mysqlCfg, poolInUse, active_conns_, stopVars>>
  /\ UNCHANGED notMysql

\* completion handler, first statement: if (done_flag->load()) return; the
\* pooled_connection it was given is destroyed, which returns it to the pool
ConnHandlerLoad(a) ==
  /\ acq[a].pcConn = "ready"
  /\ MysqlMayStart
  /\ IF acq[a].done_flag
       THEN /\ acq' = [acq EXCEPT ![a].pcConn = "done",
                                  ![a].got = IF acq[a].got = "conn" THEN "returned"
                                                                     ELSE acq[a].got]
            /\ poolInUse' = IF acq[a].got = "conn" THEN poolInUse - 1 ELSE poolInUse
       ELSE /\ acq' = [acq EXCEPT ![a].pcConn = "store"]
            /\ UNCHANGED poolInUse
  /\ UNCHANGED <<mysqlCfg, active_conns_, stopVars>>
  /\ UNCHANGED notMysql

\* what timeout_timer->cancel() does to the timer: a wait that has not expired
\* completes with operation_aborted, a handler that is already ready keeps ec
Cancelled(t) ==
  IF t.timeout_timer = "armed"
    THEN [t EXCEPT !.timeout_timer = "queued", !.ec = "aborted"]
    ELSE t

\* completion handler, the rest: done_flag->store(true); timeout_timer->cancel();
\* state.error = ec, or state.conn = conn and inc_active(); cb(Ok(state)), which
\* runs the lambda of run_query
ConnHandlerStore(a) ==
  /\ acq[a].pcConn = "store"
  /\ LET s == CASE acq[a].got = "conn" -> ConnectedState
                [] acq[a].got = "cancelled" -> PoolCancelledState
                [] OTHER -> PoolErrorState
         t == [acq[a] EXCEPT !.done_flag = TRUE, !.pcConn = "done",
                             !.delivered = Append(@, s)]
         k == Continue(Cancelled(t), s)
     IN /\ acq' = [acq EXCEPT ![a] = k.acq]
        /\ active_conns_' = IF s.conn THEN active_conns_ + 1 ELSE active_conns_
        /\ poolInUse' = poolInUse - k.back
  /\ UNCHANGED <<mysqlCfg, stopVars>>
  /\ UNCHANGED notMysql

\* the reactor finds the timeout timer expired: its handler becomes ready, ec = 0
AcqTimeoutExpire(a) ==
  /\ acq[a].timeout_timer = "armed"
  /\ acq' = [acq EXCEPT ![a].timeout_timer = "queued", ![a].ec = "ok"]
  /\ UNCHANGED <<mysqlCfg, poolInUse, active_conns_, stopVars>>
  /\ UNCHANGED notMysql

\* timeout handler, first statements: if (done_flag->load()) return; if (ec) return;
AcqTimeoutLoad(a) ==
  /\ acq[a].timeout_timer = "queued"
  /\ MysqlMayStart
  /\ acq' = [acq EXCEPT ![a].timeout_timer = "taken",
                        ![a].pcTimeout =
                          IF acq[a].done_flag \/ acq[a].ec # "ok" THEN "done"
                                                                  ELSE "store"]
  /\ UNCHANGED <<mysqlCfg, poolInUse, active_conns_, stopVars>>
  /\ UNCHANGED notMysql

\* timeout handler, the rest: done_flag->store(true); state.error = timed_out;
\* cb(Ok(state)), which runs the lambda of run_query
AcqTimeoutStore(a) ==
  /\ acq[a].pcTimeout = "store"
  /\ LET t == [acq[a] EXCEPT !.done_flag = TRUE, !.pcTimeout = "done",
                             !.delivered = Append(@, TimedOutState)]
     IN acq' = [acq EXCEPT ![a] = Continue(t, TimedOutState).acq]
  /\ UNCHANGED <<mysqlCfg, poolInUse, active_conns_, stopVars>>
  /\ UNCHANGED notMysql

\* the handler of async_execute: state_ptr->error = ec; dec_active() in a
\* BB_MYSQL_VERBOSE build only; cb(Ok(std::move(*state_ptr))): the state, with
\* its connection, is now the caller's
ExecuteCompletes(a) ==
  /\ acq[a].exec = "pending"
  /\ MysqlMayStart
  /\ \E ec \in {"none", "sql_failed"} :
       acq' = [acq EXCEPT ![a].exec = "done",
                          ![a].out = Append(@, OkState([error |-> ec, conn |-> TRUE])),
                          ![a].held = @ + 1]
  /\ active_conns_' = IF BB_MYSQL_VERBOSE THEN active_conns_ - 1 ELSE active_conns_
  /\ UNCHANGED <<mysqlCfg, poolInUse, stopVars>>
  /\ UNCHANGED notMysql

\* a delivered SessionState that holds a connection is destroyed: the
\* pooled_connection goes back to the pool (active_conns_ is left alone)
DropState(a) ==
  /\ acq[a].held > 0
  /\ acq' = [acq EXCEPT ![a].held = @ - 1]
  /\ poolInUse' = poolInUse - 1
  /\ UNCHANGED <<mysqlCfg, active_conns_, stopVars>>
  /\ UNCHANGED notMysql

\* stopped_ is a plain bool: calls of stop() on one thread run one after the
\* other, calls on different threads interleave statement by statement
StopMayStep(t) ==
  mConcurrent \/ \A u \in Stoppers \ {t} : stopPc[u] \in {"idle", "returned"}

\* stop(): if (!stopped_) ...; a call that reads true returns at once
StopTest(t) ==
  /\ stopPc[t] = "idle"
  /\ IF t = 1 THEN TRUE ELSE stopPc[t - 1] # "idle"
  /\ StopMayStep(t)
  /\ stopPc' = [stopPc EXCEPT ![t] = IF stopped_ THEN "returned" ELSE "tested"]
  /\ UNCHANGED <<mysqlCfg, poolInUse, active_conns_, acq, stopped_, cancels>>
  /\ UNCHANGED notMysql

\* stop(): stopped_ = true;
StopSet(t) ==
  /\ stopPc[t] = "tested"
  /\ stopped_' = TRUE
  /\ stopPc' = [stopPc EXCEPT ![t] = "set"]
  /\ UNCHANGED <<mysqlCfg, poolInUse, active_conns_, acq, cancels>>
  /\ UNCHANGED notMysql

\* stop(): pool_.cancel(); and return
StopCancel(t) ==
  /\ stopPc[t] = "set"
  /\ cancels' = cancels + 1
  /\ stopPc' = [stopPc EXCEPT ![t] = "returned"]
  /\ UNCHANGED <<mysqlCfg, poolInUse, active_conns_, acq, stopped_>>
  /\ UNCHANGED notMysql

\* the steps of one run_query
MysqlStep(a) ==
  \/ RunQuery(a)
  \/ WatchdogFires(a)
  \/ PoolCompletes(a)
  \/ ConnHandlerLoad(a)
  \/ ConnHandlerStore(a)
  \/ AcqTimeoutExpire(a)
  \/ AcqTimeoutLoad(a)
  \/ AcqTimeoutStore(a)
  \/ ExecuteCompletes(a)
  \/ DropState(a)

\* sessions running queries over a pool that is not stopped
MysqlNext == \E a \in Acqs : MysqlStep(a)

InitMysql == MysqlInit /\ TimeoutParked /\ CombParked /\ RetryParked /\ HttpParked
  /\ LaterParked

SpecMysql == InitMysql /\ [][MysqlNext]_vars

\* calls of stop() around one run_query
StopNext ==
  \/ MysqlStep(1)
  \/ \E t \in Stoppers :
       \/ StopTest(t)
       \/ StopSet(t)
       \/ StopCancel(t)

InitStop == MysqlInit /\ TimeoutParked /\ CombParked /\ RetryParked /\ HttpParked
  /\ LaterParked

SpecStop == InitStop /\ [][StopNext]_vars

\* ------------------------------------------------------------------------
\* Claims about get_connection
\* ------------------------------------------------------------------------
\* C3: for every acquisition and every interleaving of the timeout handler and
\* the pool's completion handler, also on different threads, the continuation
\* gets exactly one completion: never two, and one as soon as either handler
\* has finished.
C3_AcquireExactlyOnce ==
  \A a \in Acqs :
    /\ Len(acq[a].delivered) <= 1
    /\ (acq[a].pcTimeout = "done" \/ acq[a].pcConn = "done")
         => Len(acq[a].delivered) = 1

\* ------------------------------------------------------------------------
\* Claims about run_query and execute_sql
\* ------------------------------------------------------------------------
\* the errors get_connection reports in state.error
AcquireErrors == {"timed_out", "pool_error", "pool_cancelled"}

\* get_connection delivered s to the lambda of run_query a
Delivered(a, s) == \E i \in 1..Len(acq[a].delivered) : acq[a].delivered[i] = s

\* C12: for both overloads of run_query, a completion that reports a failed or
\* timed out acquisition is an Err whose code is the driver's error code and
\* whose message is the driver's message, and a run_query whose acquisition
\* only failed executes no SQL.
C12_AcquireErrorIsFail ==
  \A a \in Acqs :
    /\ \A i \in 1..Len(acq[a].out) :
         acq[a].out[i].error \in AcquireErrors
           => /\ ~acq[a].out[i].ok
              /\ acq[a].out[i].code = ErrorValue(acq[a].out[i].error)
    /\ ~Delivered(a, ConnectedState) => acq[a].exec = "none"

\* C13: once get_connection has delivered a connection and there is SQL to
\* run, run_query has no completion while async_execute is pending and exactly
\* one after its handler ran, and that one is Ok(state) with the connection,
\* whether the SQL failed or not.
C13_ExecuteCompletesOnceOk ==
  \A a \in Acqs :
    (Delivered(a, ConnectedState) /\ (acq[a].overload = "sql" \/ acq[a].gen = "ok"))
    => /\ acq[a].exec \in {"pending", "done"}
       /\ acq[a].exec = "pending" => acq[a].out = <<>>
       /\ acq[a].exec = "done"
            => /\ Len(acq[a].out) = 1
               /\ acq[a].out[1].ok
               /\ acq[a].out[1].conn

\* connections run_query a has out of the pool: in the completion handler, in
\* an async_execute, or in a state the caller still holds
OutOfPool(a) ==
  acq[a].got = "conn" /\ ~(acq[a].exec = "done" /\ acq[a].held = 0)

\* C14: in run_query(sql_generator), when the generator returns Err: the step
\* that acquires the connection hands the continuation that same error and
\* gives the connection back to the pool, no SQL is ever executed and no other
\* completion follows the acquisition.
C14_GeneratorErrPropagates ==
  [][\A a \in Acqs :
       (acq'[a].overload = "generator" /\ acq'[a].gen = "err")
       => /\ acq'[a].exec = "none"
          /\ (~Delivered(a, ConnectedState) /\ Delivered(a, ConnectedState)')
               => /\ acq'[a].out = Append(acq[a].out, GeneratorErr)
                  /\ poolInUse' = poolInUse - 1
                  /\ ~OutOfPool(a)'
          /\ Delivered(a, ConnectedState)
               => /\ \A i \in 1..Len(acq'[a].out) : ~acq'[a].out[i].ok
                  /\ ~OutOfPool(a)'
                  /\ acq'[a].held = 0]_vars

\* the generator failed on the only connection the pool has given out, the
\* continuation got its error and the pool has the connection back
C14_Witness ==
  /\ acq[1].overload = "generator"
  /\ acq[1].gen = "err"
  /\ Delivered(1, ConnectedState)
  /\ acq[1].out = <<GeneratorErr>>
  /\ poolInUse = 0

\* C15: when the pool's completion handler starts after the timeout has been
\* reported to the continuation, it ends at once: a connection it was given
\* goes back to the pool, active_conns_ stays, nothing is delivered and no SQL
\* is started.
C15_LateConnectionReturned ==
  [][\A a \in Acqs :
       (/\ Delivered(a, TimedOutState)
        /\ acq[a].pcConn = "ready"
        /\ acq'[a].pcConn # "ready")
       => /\ acq'[a].pcConn = "done"
          /\ acq'[a].delivered = acq[a].delivered
          /\ acq'[a].out = acq[a].out
          /\ acq'[a].exec = acq[a].exec
          /\ acq'[a].held = acq[a].held
          /\ active_conns_' = active_conns_
          /\ acq[a].got = "conn"
               => /\ acq'[a].got = "returned"
                  /\ poolInUse' = poolInUse - 1]_vars

\* a connection arrived after the timeout was reported and went back
C15_Witness ==
  /\ acq[1].delivered = <<TimedOutState>>
  /\ acq[1].got = "returned"
  /\ acq[1].pcConn = "done"
  /\ Len(acq[1].out) = 1
  /\ active_conns_ = 0
  /\ poolInUse = 0

\* C16: in every reachable state 0 <= active() <= max_size.
C16_ActiveWithinMax ==
  /\ active_conns_ >= 0
  /\ active_conns_ <= max_size

\* ------------------------------------------------------------------------
\* Claims about MysqlPoolWrapper::stop
\* ------------------------------------------------------------------------
\* C17: a run_query started after a stop() has returned is never given a
\* connection, executes no SQL, and each of its completions carries an error.
C17_NoConnectionAfterStop ==
  \A a \in Acqs :
    acq[a].afterStop
    => /\ ~Delivered(a, ConnectedState)
       /\ acq[a].exec = "none"
       /\ \A i \in 1..Len(acq[a].out) : acq[a].out[i].error \in AcquireErrors

\* C18: whatever the number of calls of stop() and however they interleave,
\* pool_.cancel() is called at most once, and once the calls have returned
\* stopped_ is set and the pool has been cancelled exactly once.
C18_StopCancelsOnce ==
  /\ cancels <= 1
  /\ (StopReturned /\ \A t \in Stoppers : stopPc[t] \in {"idle", "returned"})
       => stopped_ /\ cancels = 1

\* ========================================================================
\* Part 5: beast_pool::ConnectionPool and client_async::http_session_pooled
\* ========================================================================
HttpInit ==
  /\ cfg_ \in [max_idle_per_origin : 0..MaxIdlePerOrigin,
               max_total_idle : 1..MaxTotalIdle,
               idle_keep_alive : 0..MaxKeepAlive,
               idle_reap_interval : 0..MaxReapInterval]
  /\ ssl_ctx_ \in BOOLEAN
  /\ HttpRest

IsHttps(o) == o.scheme = "https"

\* Connection::close
Close(cs, c) == [cs EXCEPT ![c].open = FALSE]

\* is_expired as it would be if no idle time were too long
IsExpired_Never(k) == FALSE

\* Connection::is_expired: idle for longer than idle_keep_alive
IsExpired(k) == k.age > cfg_.idle_keep_alive

TotalIdle(id) ==
  LET RECURSIVE Sum(_)
      Sum(S) == IF S = {} THEN 0
                ELSE LET o == CHOOSE x \in S : TRUE IN Len(id[o]) + Sum(S \ {o})
  IN Sum(Origins)

\* Largest as it would be if any deque that is not empty could be the victim
Largest_Any(id) == {o \in Origins : id[o] # <<>>}

\* the deques std::max_element may return: those of the greatest size
Largest(id) == {o \in Origins : \A x \in Origins : Len(id[x]) <= Len(id[o])}

\* shrink_global_if_needed: while the total exceeds max_total_idle, close the
\* front of a largest deque; which of several largest deques max_element
\* meets first depends on the hash table's order, so every choice is kept
RECURSIVE ShrinkGlobal(_)
ShrinkGlobal(p) ==
  IF TotalIdle(p.idle) <= cfg_.max_total_idle
    THEN {p}
    ELSE UNION {ShrinkGlobal([conns |-> Close(p.conns, p.idle[o][1]),
                              idle |-> [p.idle EXCEPT ![o] = Tail(@)]]) :
                  o \in Largest(p.idle)}

\* arm_reap_if_needed_locked as it would be without the reaper_armed_ test
ArmReap_IgnoresArmed(id) ==
  IF cfg_.idle_reap_interval <= 0 \/ TotalIdle(id) = 0
    THEN <<reaper_armed_, reap_timer_>>
    ELSE <<TRUE, cfg_.idle_reap_interval>>

\* arm_reap_if_needed_locked, then schedule_reap: the new values of
\* reaper_armed_ and reap_timer_
ArmReap(id) ==
  IF cfg_.idle_reap_interval <= 0 \/ reaper_armed_ \/ TotalIdle(id) = 0
    THEN <<reaper_armed_, reap_timer_>>
    ELSE <<TRUE, cfg_.idle_reap_interval>>

\* Back as it would be if acquire took the front of the deque
Back_IsFront(dq) == 1

\* the position acquire takes from the deque: dq.back(); dq.pop_back()
Back(dq) == Len(dq)

\* the loop of acquire over the origin's deque, from its back: the first live,
\* non-expired connection is marked busy and found; the others are closed
RECURSIVE AcquireScan(_, _)
AcquireScan(cs, dq) ==
  IF dq = <<>>
    THEN [conns |-> cs, dq |-> dq, found |-> 0]
    ELSE LET c == dq[Back(dq)]
             rest == SubSeq(dq, 1, Back(dq) - 1) \o SubSeq(dq, Back(dq) + 1, Len(dq))
         IN IF cs[c].open /\ ~IsExpired(cs[c])
              THEN [conns |-> [cs EXCEPT ![c].busy = TRUE], dq |-> rest, found |-> c]
              ELSE AcquireScan(Close(cs, c), rest)

Posted(op, s, o, c, r) == [op |-> op, s |-> s, origin |-> o, c |-> c, can_reuse |-> r]

\* run(cb) of a session for origin o, through the proxy if px: post the acquire
\* for the proxy's origin if a proxy is set, for origin_ otherwise (the
\* sessions are numbered in the order they are run)
Run(s, o, px) ==
  /\ sess[s].stage = "new"
  /\ \A t \in 1..(s - 1) : sess[t].stage # "new"
  /\ sess' = [sess EXCEPT ![s].origin = o, ![s].proxy = px, ![s].stage = "acquire"]
  /\ strand_' = Append(strand_, Posted("acquire", s, IF px THEN ProxyOrigin ELSE o,
                                       0, FALSE))
  /\ UNCHANGED <<cfg_, ssl_ctx_, conns, idle_, reaper_armed_, reap_timer_>>
  /\ UNCHANGED notHttp

\* sessions for a plain or a TLS origin, direct or through the proxy
SessionRun(s) ==
  \E o \in {HttpA, HttpsB}, px \in BOOLEAN : Run(s, o, px)

\* sessions that all go to one plain origin directly, at most MaxInFlight of
\* them under way together
DirectRun(s) ==
  /\ Cardinality({t \in DOMAIN sess : sess[t].stage \notin {"new", "done"}}) < MaxInFlight
  /\ Run(s, HttpA, FALSE)

\* the session's acquire handler on success: conn_ = c, then do_proxy_connect
\* or do_write
Acquired(s, c) ==
  [sess EXCEPT ![s].conn = c,
               ![s].stage = IF sess[s].proxy /\ IsHttps(sess[s].origin)
                              THEN "connect_write" ELSE "write"]

\* the handler acquire() posted as it would be if it never looked at the idle
\* deque
AcquireHandler_NeverReuses(h) ==
  /\ idle_' = idle_
  /\ conns' = [conns EXCEPT ![h.s] =
                 [born |-> TRUE, origin |-> h.origin,
                  ssl |-> IsHttps(h.origin) /\ ssl_ctx_,
                  open |-> FALSE, busy |-> FALSE, age |-> 0,
                  tunnel |-> "none"]]
  /\ sess' = [sess EXCEPT ![h.s].stage = "resolve"]
  /\ UNCHANGED <<reaper_armed_, reap_timer_>>

\* the handler acquire() posted as it would be if it left the connection it
\* hands out in the idle deque
AcquireHandler_LeavesIdle(h) ==
  LET r == AcquireScan(conns, idle_[h.origin])
  IN /\ idle_' = idle_
     /\ IF r.found # 0
          THEN /\ conns' = r.conns
               /\ sess' = Acquired(h.s, r.found)
          ELSE /\ conns' = [r.conns EXCEPT ![h.s] =
                              [born |-> TRUE, origin |-> h.origin,
                               ssl |-> IsHttps(h.origin) /\ ssl_ctx_,
                               open |-> FALSE, busy |-> FALSE, age |-> 0,
                               tunnel |-> "none"]]
               /\ sess' = [sess EXCEPT ![h.s].stage = "resolve"]
     /\ UNCHANGED <<reaper_armed_, reap_timer_>>

\* the handler acquire() posted
AcquireHandler(h) ==
  LET r == AcquireScan(conns, idle_[h.origin])
  IN /\ idle_' = [idle_ EXCEPT ![h.origin] = r.dq]
     /\ IF r.found # 0
          THEN /\ conns' = r.conns
               /\ sess' = Acquired(h.s, r.found)
          ELSE /\ conns' = [r.conns EXCEPT ![h.s] =
                              [born |-> TRUE, origin |-> h.origin,
                               ssl |-> IsHttps(h.origin) /\ ssl_ctx_,
                               open |-> FALSE, busy |-> FALSE, age |-> 0,
                               tunnel |-> "none"]]
               /\ sess' = [sess EXCEPT ![h.s].stage = "resolve"]
     /\ UNCHANGED <<reaper_armed_, reap_timer_>>

\* the handler release() posted. With max_idle_per_origin = 0 and an empty
\* deque, dq.front() and dq.pop_front() act on an empty std::deque, which is
\* undefined: the process may abort there (the behaviour ends, no new state),
\* the deque may end up looking empty with c out of reach in its storage, still
\* open ("lost"), or be left alone so that push_back makes c its one element
\* ("kept")
ReleaseHandler(h) ==
  IF ~h.can_reuse \/ ~conns[h.c].open
    THEN /\ conns' = Close(conns, h.c)
         /\ UNCHANGED <<idle_, reaper_armed_, reap_timer_, sess>>
    ELSE LET o == conns[h.c].origin
             cs1 == [conns EXCEPT ![h.c].busy = FALSE, ![h.c].age = 0]
             full == Len(idle_[o]) >= cfg_.max_idle_per_origin
             undefined == full /\ idle_[o] = <<>>
             cs2 == IF full /\ ~undefined THEN Close(cs1, idle_[o][1]) ELSE cs1
             dq == Append(IF full /\ ~undefined THEN Tail(idle_[o]) ELSE idle_[o], h.c)
         IN \E ub \in IF undefined THEN {"lost", "kept"} ELSE {"defined"} :
              \E p \in ShrinkGlobal([conns |-> cs2,
                                     idle |-> [idle_ EXCEPT ![o] =
                                                 IF ub = "lost" THEN <<>> ELSE dq]]) :
                /\ conns' = p.conns
                /\ idle_' = p.idle
                /\ reaper_armed_' = ArmReap(p.idle)[1]
                /\ reap_timer_' = ArmReap(p.idle)[2]
                /\ UNCHANGED sess

\* the strand runs the oldest handler posted to it
StrandRun ==
  /\ strand_ # <<>>
  /\ strand_' = Tail(strand_)
  /\ IF Head(strand_).op = "acquire" THEN AcquireHandler(Head(strand_))
                                     ELSE ReleaseHandler(Head(strand_))
  /\ UNCHANGED <<cfg_, ssl_ctx_>>
  /\ UNCHANGED notHttp

\* the connection is in an idle deque; its release is waiting in the strand
InIdle(c) == \E o \in Origins : \E i \in 1..Len(idle_[o]) : idle_[o][i] = c

ReleasePosted(q, c) == \E i \in 1..Len(q) : q[i].op = "release" /\ q[i].c = c

\* Finish without handing the connection to release()
Finish_NoRelease(s, cs, res, code) ==
  LET c == sess[s].conn
      reusable == res = "keep_alive"
      cs1 == IF ~reusable /\ c # 0 THEN Close(cs, c) ELSE cs
      q == strand_
  IN /\ conns' = cs1
     /\ strand_' = q
     /\ sess' = [sess EXCEPT ![s].stage = "done",
                             ![s].calls = Append(@,
                                [res |-> res, code |-> code, conn |-> c,
                                 closed |-> c # 0 /\ ~cs1[c].open,
                                 idle |-> c # 0 /\ InIdle(c),
                                 posted |-> ReleasePosted(q, c)])]

\* Finish as it would be if any response made the connection reusable
Finish_AnyResponseReusable(s, cs, res, code) ==
  LET c == sess[s].conn
      reusable == res # "none"
      cs1 == IF ~reusable /\ c # 0 THEN Close(cs, c) ELSE cs
      q == IF c # 0 THEN Append(strand_, Posted("release", 0, HttpA, c, reusable))
                    ELSE strand_
  IN /\ conns' = cs1
     /\ strand_' = q
     /\ sess' = [sess EXCEPT ![s].stage = "done",
                             ![s].calls = Append(@,
                                [res |-> res, code |-> code, conn |-> c,
                                 closed |-> c # 0 /\ ~cs1[c].open,
                                 idle |-> c # 0 /\ InIdle(c),
                                 posted |-> ReleasePosted(q, c)])]

\* finish(res, code): close conn_ unless the response allows reuse, hand conn_
\* to release(), then invoke callback_ (recorded with what the connection was
\* at that moment)
Finish(s, cs, res, code) ==
  LET c == sess[s].conn
      reusable == res = "keep_alive"
      cs1 == IF ~reusable /\ c # 0 THEN Close(cs, c) ELSE cs
      q == IF c # 0 THEN Append(strand_, Posted("release", 0, HttpA, c, reusable))
                    ELSE strand_
  IN /\ conns' = cs1
     /\ strand_' = q
     /\ sess' = [sess EXCEPT ![s].stage = "done",
                             ![s].calls = Append(@,
                                [res |-> res, code |-> code, conn |-> c,
                                 closed |-> c # 0 /\ ~cs1[c].open,
                                 idle |-> c # 0 /\ InIdle(c),
                                 posted |-> ReleasePosted(q, c)])]

\* do_resolve_connect: the resolve, connect and TLS handshake completions of
\* a new connection; an error goes to the session's acquire handler, which
\* finishes with code 1 and no connection
Establish(s) ==
  /\ sess[s].stage \in {"resolve", "connect", "tls"}
  /\ \E ok \in BOOLEAN :
       IF ~ok
         THEN Finish(s, Close(conns, s), "none", 1)
         ELSE /\ UNCHANGED strand_
              /\ IF sess[s].stage = "resolve"
                   THEN /\ sess' = [sess EXCEPT ![s].stage = "connect"]
                        /\ UNCHANGED conns
                   ELSE IF sess[s].stage = "connect" /\ conns[s].ssl
                     THEN /\ sess' = [sess EXCEPT ![s].stage = "tls"]
                          /\ conns' = [conns EXCEPT ![s].open = TRUE]
                     ELSE /\ sess' = Acquired(s, s)
                          /\ conns' = [conns EXCEPT ![s].open = TRUE, ![s].busy = TRUE]
  /\ UNCHANGED <<cfg_, ssl_ctx_, idle_, reaper_armed_, reap_timer_>>
  /\ UNCHANGED notHttp

\* Connection::upgrade_to_ssl on connection k: whether a stream is returned,
\* and the connection afterwards.  A connection that already holds a TLS
\* stream returns that stream; otherwise, without a TLS context, nothing is
\* returned; otherwise the TCP stream is moved into a new TLS stream
UpgradeToSsl(k) ==
  IF k.ssl THEN [stream |-> TRUE, conn |-> k]
  ELSE IF ~ssl_ctx_ THEN [stream |-> FALSE, conn |-> k]
  ELSE [stream |-> TRUE, conn |-> [k EXCEPT !.ssl = TRUE]]

\* StageCode as it would be if a failed request write reported the code of a
\* failed response read
StageCode_WriteAsRead(st) ==
  CASE st = "connect_write" -> 2 [] st = "connect_read" -> 3
    [] st = "handshake" -> 6 [] st = "write" -> 8
    [] OTHER -> 8

\* the code a completion handler passes to finish() when its operation failed
StageCode(st) ==
  CASE st = "connect_write" -> 2 [] st = "connect_read" -> 3
    [] st = "handshake" -> 6 [] st = "write" -> 7
    [] OTHER -> 8

\* the completion of the stage the session waits in: CONNECT write, CONNECT
\* header read (then upgrade_to_tls_and_write), handshake, request write,
\* response read.  out is "ok", "error", or "other": a CONNECT reply that is
\* not 200, a response without keep-alive
Stage(s) ==
  /\ sess[s].stage \in {"connect_write", "connect_read", "handshake", "write", "read"}
  /\ LET st == sess[s].stage
         c == sess[s].conn
     IN \E out \in {"ok", "error", "other"} :
          /\ out = "other" => st \in {"connect_read", "read"}
          /\ CASE out = "error" -> Finish(s, conns, "none", StageCode(st))
               [] st = "connect_read" /\ out = "other" -> Finish(s, conns, "none", 4)
               [] st = "connect_read" /\ out = "ok" ->
                    LET cs == [conns EXCEPT ![c].tunnel = sess[s].origin.host]
                        up == UpgradeToSsl(cs[c])
                    IN IF up.stream
                         THEN /\ conns' = [cs EXCEPT ![c] = up.conn]
                              /\ sess' = [sess EXCEPT ![s].stage = "handshake"]
                              /\ UNCHANGED strand_
                         ELSE Finish(s, cs, "none", 5)
               [] st = "read" ->
                    Finish(s, conns, IF out = "ok" THEN "keep_alive" ELSE "close", 0)
               [] OTHER ->
                    /\ sess' = [sess EXCEPT ![s].stage =
                                  CASE st = "connect_write" -> "connect_read"
                                    [] st = "handshake" -> "write"
                                    [] OTHER -> "read"]
                    /\ UNCHANGED <<conns, strand_>>
  /\ UNCHANGED <<cfg_, ssl_ctx_, idle_, reaper_armed_, reap_timer_>>
  /\ UNCHANGED notHttp

\* the reaper's wait handler as it would be if it always waited again
ReapFires_AlwaysRearms ==
  /\ reap_timer_ = 0
  /\ LET gone(c) == ~conns[c].open \/ IsExpired(conns[c])
         cs == [c \in DOMAIN conns |->
                  IF InIdle(c) /\ gone(c) THEN [conns[c] EXCEPT !.open = FALSE]
                                          ELSE conns[c]]
         id == [o \in Origins |-> SelectSeq(idle_[o], LAMBDA c : ~gone(c))]
     IN \E p \in ShrinkGlobal([conns |-> cs, idle |-> id]) :
          /\ conns' = p.conns
          /\ idle_' = p.idle
          /\ reap_timer_' = cfg_.idle_reap_interval
          /\ UNCHANGED reaper_armed_
  /\ UNCHANGED <<cfg_, ssl_ctx_, strand_, sess>>
  /\ UNCHANGED notHttp

\* the reaper's wait handler: close and erase every dead or expired idle
\* connection, shrink_global_if_needed, then re-arm if idle connections remain
ReapFires ==
  /\ reap_timer_ = 0
  /\ LET gone(c) == ~conns[c].open \/ IsExpired(conns[c])
         cs == [c \in DOMAIN conns |->
                  IF InIdle(c) /\ gone(c) THEN [conns[c] EXCEPT !.open = FALSE]
                                          ELSE conns[c]]
         id == [o \in Origins |-> SelectSeq(idle_[o], LAMBDA c : ~gone(c))]
     IN \E p \in ShrinkGlobal([conns |-> cs, idle |-> id]) :
          /\ conns' = p.conns
          /\ idle_' = p.idle
          /\ IF TotalIdle(p.idle) > 0 /\ cfg_.idle_reap_interval > 0
               THEN /\ reap_timer_' = cfg_.idle_reap_interval
                    /\ UNCHANGED reaper_armed_
               ELSE /\ reap_timer_' = -1
                    /\ reaper_armed_' = FALSE
  /\ UNCHANGED <<cfg_, ssl_ctx_, strand_, sess>>
  /\ UNCHANGED notHttp

\* steady_clock advances by one tick, while a wait or an idle connection that
\* has not expired yet makes the time matter; a reaper wait that is due runs
\* first
PoolTick ==
  /\ reap_timer_ # 0
  /\ reap_timer_ > 0 \/ \E c \in DOMAIN conns : InIdle(c) /\ ~IsExpired(conns[c])
  /\ reap_timer_' = IF reap_timer_ > 0 THEN reap_timer_ - 1 ELSE reap_timer_
  /\ conns' = [c \in DOMAIN conns |->
                 IF InIdle(c) /\ ~IsExpired(conns[c])
                   THEN [conns[c] EXCEPT !.age = @ + 1] ELSE conns[c]]
  /\ UNCHANGED <<cfg_, ssl_ctx_, idle_, strand_, reaper_armed_, sess>>
  /\ UNCHANGED notHttp

HttpNext ==
  \/ \E s \in Sessions : SessionRun(s)
  \/ StrandRun
  \/ \E s \in Sessions : Establish(s)
  \/ \E s \in Sessions : Stage(s)
  \/ ReapFires
  \/ PoolTick

InitHttp == HttpInit /\ TimeoutParked /\ CombParked /\ RetryParked /\ MysqlParked
  /\ LaterParked

SpecHttp == InitHttp /\ [][HttpNext]_vars

\* the pool under MaxDirect sessions of one plain origin, with room for every
\* connection in max_total_idle
DirectSessions == 1..MaxDirect

PoolInit ==
  /\ cfg_ \in [max_idle_per_origin : 1..MaxIdlePerOrigin,
               max_total_idle : {MaxDirect},
               idle_keep_alive : {MaxKeepAlive},
               idle_reap_interval : 0..MaxReapInterval]
  /\ ssl_ctx_ = FALSE
  /\ conns = [c \in DirectSessions |-> NoConn]
  /\ idle_ = [o \in Origins |-> <<>>]
  /\ strand_ = <<>>
  /\ reaper_armed_ = FALSE
  /\ reap_timer_ = -1
  /\ sess = [s \in DirectSessions |-> NewSession]

PoolNext ==
  \/ \E s \in DirectSessions : DirectRun(s)
  \/ StrandRun
  \/ \E s \in DirectSessions : Establish(s)
  \/ \E s \in DirectSessions : Stage(s)
  \/ ReapFires
  \/ PoolTick

InitPool == PoolInit /\ TimeoutParked /\ CombParked /\ RetryParked /\ MysqlParked
  /\ LaterParked

SpecPool == InitPool /\ [][PoolNext]_vars

\* the pool under MaxShrink sessions for one plain origin, each of them direct
\* or through the proxy, so that two deques fill and the global cap is met
ShrinkRun(s) == \E px \in BOOLEAN : Run(s, HttpA, px)

InitShrink ==
  /\ cfg_ \in [max_idle_per_origin : 1..MaxIdlePerOrigin,
               max_total_idle : 0..MaxTotalIdle,
               idle_keep_alive : {MaxKeepAlive},
               idle_reap_interval : 0..MaxReapInterval]
  /\ ssl_ctx_ = FALSE
  /\ conns = [c \in 1..MaxShrink |-> NoConn]
  /\ idle_ = [o \in Origins |-> <<>>]
  /\ strand_ = <<>>
  /\ reaper_armed_ = FALSE
  /\ reap_timer_ = -1
  /\ sess = [s \in 1..MaxShrink |-> NewSession]
  /\ TimeoutParked /\ CombParked /\ RetryParked /\ MysqlParked /\ LaterParked

ShrinkNext ==
  \/ \E s \in 1..MaxShrink : ShrinkRun(s)
  \/ StrandRun
  \/ \E s \in 1..MaxShrink : Establish(s)
  \/ \E s \in 1..MaxShrink : Stage(s)
  \/ ReapFires
  \/ PoolTick

SpecShrink == InitShrink /\ [][ShrinkNext]_vars

\* the pool under sessions that are run one after the other: each one from the
\* callback of the one before it, or later
SeqRun(s) ==
  /\ \A t \in 1..(s - 1) : sess[t].stage = "done"
  /\ SessionRun(s)

InitSeq ==
  /\ cfg_ \in [max_idle_per_origin : 0..MaxIdlePerOrigin,
               max_total_idle : 0..MaxTotalIdle,
               idle_keep_alive : 0..MaxKeepAlive,
               idle_reap_interval : -1..MaxReapInterval]
  /\ ssl_ctx_ \in BOOLEAN
  /\ HttpRest
  /\ TimeoutParked /\ CombParked /\ RetryParked /\ MysqlParked /\ LaterParked

SeqNext ==
  \/ \E s \in Sessions : SeqRun(s)
  \/ StrandRun
  \/ \E s \in Sessions : Establish(s)
  \/ \E s \in Sessions : Stage(s)
  \/ ReapFires
  \/ PoolTick

SpecSeq == InitSeq /\ [][SeqNext]_vars

\* what the io_context and the timeouts guarantee while the pool runs: a
\* handler posted to the strand is run, and a connect, a TLS handshake, a write
\* or a read completes, with an error when its expires_after() time is up at
\* the latest. do_resolve_connect sets no time limit for async_resolve, so
\* nothing guarantees that a resolve completes
PoolFairness ==
  /\ WF_vars(StrandRun)
  /\ \A s \in Sessions : /\ WF_vars(Stage(s))
                          /\ WF_vars(sess[s].stage # "resolve" /\ Establish(s))

SpecSeqLive == SpecSeq /\ PoolFairness

\* ------------------------------------------------------------------------
\* Claims about the pooled HTTP session
\* ------------------------------------------------------------------------
\* callback_ is invoked at most once, and once when the session has ended
CallbackOnce ==
  \A s \in Sessions :
    /\ Len(sess[s].calls) <= 1
    /\ sess[s].stage = "done" <=> Len(sess[s].calls) = 1

C19_PerOriginCap ==
  \A o \in Origins : Len(idle_[o]) <= cfg_.max_idle_per_origin

\* positions of deque dq whose connection acquire may hand out
Live(dq) == {i \in 1..Len(dq) : conns[dq[i]].open /\ ~IsExpired(conns[dq[i]])}

\* in every deque a connection nearer the front has been idle at least as long
OldestFirst ==
  \A o \in Origins : \A i, j \in 1..Len(idle_[o]) :
    i < j => conns[idle_[o][i]].age >= conns[idle_[o][j]].age

\* C20: a release that finds the origin's deque at the cap closes and removes
\* its front, which is the connection idle the longest, and appends the
\* released one; an acquire hands out the live, non-expired connection nearest
\* the back of the origin's deque, the one released last, and creates a new one
\* only when there is none.
C20_EvictOldestAcquireNewest ==
  [][(strand_ # <<>> /\ strand_' = Tail(strand_))
     => LET h == Head(strand_)
        IN /\ OldestFirst'
           /\ h.op = "acquire"
                => LET dq == idle_[h.origin]
                   IN IF Live(dq) = {}
                        THEN /\ sess'[h.s].conn = 0
                             /\ idle_'[h.origin] = <<>>
                        ELSE LET m == CHOOSE i \in Live(dq) : \A j \in Live(dq) : j <= i
                             IN /\ sess'[h.s].conn = dq[m]
                                /\ conns'[dq[m]].busy
                                /\ idle_'[h.origin] = SubSeq(dq, 1, m - 1)
           /\ (/\ h.op = "release"
               /\ h.can_reuse
               /\ conns[h.c].open
               /\ idle_[conns[h.c].origin] # <<>>
               /\ Len(idle_[conns[h.c].origin]) >= cfg_.max_idle_per_origin)
                => LET dq == idle_[conns[h.c].origin]
                   IN /\ ~conns'[dq[1]].open
                      /\ idle_'[conns[h.c].origin] = Append(Tail(dq), h.c)]_vars

\* connections 1, 2 and 3 were released in that order with cap 2: 1 was
\* evicted, and the fourth session's acquire was given 3, leaving 2 idle
C20_Witness ==
  /\ cfg_.max_idle_per_origin = 2
  /\ \A k \in 1..3 : /\ sess[k].stage = "done"
                      /\ sess[k].calls[1].conn = k
                      /\ sess[k].calls[1].res = "keep_alive"
  /\ ~conns[1].open
  /\ conns[1].age = 0
  /\ sess[4].conn = 3
  /\ idle_[HttpA] = <<2>>

\* the strand is about to run the handler a release() posted; the reaper's
\* wait handler is about to run
ReleaseStep == strand_ # <<>> /\ strand_' = Tail(strand_) /\ Head(strand_).op = "release"

ReaperStep == reap_timer_ = 0 /\ reap_timer_' # 0

\* the deques as the handler that is about to run leaves them for
\* shrink_global_if_needed: after release has pushed the connection (evicting
\* the front at the per-origin cap), after the reaper has pruned
BeforeShrink ==
  IF ReaperStep
    THEN [o \in Origins |->
            SelectSeq(idle_[o], LAMBDA c : conns[c].open /\ ~IsExpired(conns[c]))]
    ELSE LET h == Head(strand_)
             dq == idle_[conns[h.c].origin]
         IN IF ~h.can_reuse \/ ~conns[h.c].open
              THEN idle_
              ELSE [idle_ EXCEPT ![conns[h.c].origin] =
                      Append(IF Len(dq) >= cfg_.max_idle_per_origin /\ dq # <<>>
                               THEN Tail(dq) ELSE dq, h.c)]

\* C21: after every processed release and every reaper pass the idle
\* connections of all origins together are at most max_total_idle; what the
\* pass dropped to get there was taken from the front of its deque and is
\* closed, a deque that lost a connection was a largest one when it lost it (so
\* that no deque ends more than one longer than it), and nothing is dropped
\* once the total is at the cap.
C21_GlobalCapDropsFromLargest ==
  [][(ReleaseStep \/ ReaperStep)
     => /\ TotalIdle(idle_') <= cfg_.max_total_idle
        /\ \A o \in Origins :
             LET b == BeforeShrink[o]
                 n == Len(b) - Len(idle_'[o])
             IN /\ n >= 0
                /\ idle_'[o] = SubSeq(b, n + 1, Len(b))
                /\ \A i \in 1..n : ~conns'[b[i]].open
                /\ n > 0 => /\ \A x \in Origins : Len(idle_'[x]) <= Len(idle_'[o]) + 1
                            /\ TotalIdle(idle_') = cfg_.max_total_idle]_vars

\* three connections were released with keep-alive, two for one origin and one
\* for the other, under a global cap of two: the deque of two lost its front
C21_Witness ==
  /\ cfg_.max_idle_per_origin = 2
  /\ cfg_.max_total_idle = 2
  /\ strand_ = <<>>
  /\ \A k \in 1..3 : /\ sess[k].stage = "done"
                      /\ sess[k].calls[1].conn = k
                      /\ sess[k].calls[1].res = "keep_alive"
  /\ Len(idle_[HttpA]) = 1
  /\ Len(idle_[ProxyOrigin]) = 1
  /\ \E c \in 1..3 : ~conns[c].open /\ conns[c].age = 0 /\ ~InIdle(c)

\* the connection is in an idle deque after the step
InIdleNext(c) == \E o \in Origins : \E i \in 1..Len(idle_'[o]) : idle_'[o][i] = c

\* C22: when the handler of a release has run, the connection it was given is
\* in an idle deque or closed; one released with can_reuse = false, or whose
\* socket is not open, is closed and in no idle deque.
C22_ReleasedIdleOrClosed ==
  [][ReleaseStep
     => LET h == Head(strand_)
        IN /\ InIdleNext(h.c) \/ ~conns'[h.c].open
           /\ (~h.can_reuse \/ ~conns[h.c].open)
                => (~conns'[h.c].open /\ ~InIdleNext(h.c))]_vars

\* the strand is about to run the handler an acquire() posted
AcquireStep == strand_ # <<>> /\ strand_' = Tail(strand_) /\ Head(strand_).op = "acquire"

\* the socket is closed, or the connection has been idle for more than
\* idle_keep_alive
DeadOrExpired(c) == ~conns[c].open \/ conns[c].age > cfg_.idle_keep_alive

\* C23: the connection an acquire hands to its handler from the origin's deque
\* is open and has not been idle longer than idle_keep_alive; every connection
\* the scan met behind it is dead or expired, and is out of the deque and
\* closed afterwards; the part of the deque the scan did not reach is left as
\* it was; and if the deque holds no live, non-expired connection it ends
\* empty and a new connection is created.
C23_AcquireSkipsDeadAndExpired ==
  [][AcquireStep
     => LET h == Head(strand_)
            dq == idle_[h.origin]
            c == sess'[h.s].conn
            met == IF c = 0 THEN 1..Len(dq)
                   ELSE {i \in 1..Len(dq) : \E j \in 1..Len(dq) : j < i /\ dq[j] = c}
        IN /\ c # 0 => /\ \E j \in 1..Len(dq) : dq[j] = c
                       /\ ~DeadOrExpired(c)
                       /\ conns'[h.s] = conns[h.s]
           /\ \A i \in met : /\ DeadOrExpired(dq[i])
                             /\ ~conns'[dq[i]].open
                             /\ ~InIdleNext(dq[i])
           /\ idle_'[h.origin] = SubSeq(dq, 1, Len(dq) - Cardinality(met)
                                                 - (IF c = 0 THEN 0 ELSE 1))
           /\ (\A i \in 1..Len(dq) : DeadOrExpired(dq[i]))
                => /\ c = 0
                   /\ ~conns[h.s].born /\ conns'[h.s].born
                   /\ sess'[h.s].stage = "resolve"]_vars

\* with the reaper disabled, the first session's connection expired in the
\* deque; the second session's acquire closed it and is resolving for a new one
C23_Witness ==
  /\ cfg_.idle_reap_interval = 0
  /\ sess[1].stage = "done"
  /\ sess[1].calls[1].res = "keep_alive"
  /\ ~conns[1].open
  /\ conns[1].age > cfg_.idle_keep_alive
  /\ sess[2].stage = "resolve"
  /\ conns[2].origin = conns[1].origin

\* C24: with idle_reap_interval > 0 a reaper pass leaves every idle connection
\* that is dead or expired closed and out of its deque, and afterwards a wait
\* of idle_reap_interval is outstanding (and reaper_armed_ is set) if and only
\* if an idle connection remains; with idle_reap_interval <= 0 no wait is ever
\* outstanding and reaper_armed_ is never set.
C24_ReaperPrunesAndRearms ==
  /\ [](cfg_.idle_reap_interval <= 0 => (reap_timer_ = -1 /\ ~reaper_armed_))
  /\ [][ReaperStep
        => /\ cfg_.idle_reap_interval > 0
           /\ \A c \in DOMAIN conns :
                (InIdle(c) /\ DeadOrExpired(c))
                  => (~conns'[c].open /\ ~InIdleNext(c))
           /\ IF TotalIdle(idle_') > 0
                THEN reap_timer_' = cfg_.idle_reap_interval /\ reaper_armed_'
                ELSE reap_timer_' = -1 /\ ~reaper_armed_']_vars

\* the connections of two sessions to different origins were idle together;
\* a reaper pass closed the first, which had expired, kept the second and
\* waits again
C24_Witness ==
  /\ \A k \in 1..2 : sess[k].stage = "done" /\ sess[k].calls[1].conn = k
  /\ conns[1].origin # conns[2].origin
  /\ ~conns[1].open
  /\ conns[1].age > cfg_.idle_keep_alive
  /\ InIdle(2)
  /\ reaper_armed_
  /\ reap_timer_ = cfg_.idle_reap_interval

\* session s ends in this step: finish() runs
Ends(s) == sess[s].stage # "done" /\ sess'[s].stage = "done"

\* what a session that ends with a connection does with it: it is handed to
\* release() with can_reuse set exactly when the exchange succeeded with a
\* keep-alive response, and closed by the session in every other outcome
ReleasedByOutcome ==
  \A s \in DOMAIN sess :
    Ends(s) =>
      LET k == sess'[s].calls[1]
      IN k.conn # 0 =>
           /\ strand_' = Append(strand_, Posted("release", 0, HttpA, k.conn,
                                                k.code = 0 /\ k.res = "keep_alive"))
           /\ (k.code # 0 \/ k.res # "keep_alive") => ~conns'[k.conn].open

\* C25 (as stated): when a pooled session ends, its connection re-enters the
\* idle pool if and only if the exchange succeeded and the response has
\* keep-alive semantics; in every other outcome the connection is closed.
C25_ReidledIffKeepAlive ==
  [][/\ ReleasedByOutcome
     /\ ReleaseStep
          => LET h == Head(strand_)
             IN /\ InIdleNext(h.c) <=> h.can_reuse
                /\ ~h.can_reuse => ~conns'[h.c].open]_vars

\* C25 (amended): when a pooled session ends, it releases its connection as
\* reusable if and only if the exchange succeeded and the response has
\* keep-alive semantics; in every other outcome the session has closed the
\* connection and it enters no idle deque; a connection enters an idle deque
\* only when it was released as reusable (the pool may still close it in the
\* same step to keep its caps).
C25_ReusableIffKeepAlive ==
  [][/\ ReleasedByOutcome
     /\ ReleaseStep
          => LET h == Head(strand_)
             IN /\ InIdleNext(h.c) => h.can_reuse
                /\ ~h.can_reuse => (~conns'[h.c].open /\ ~InIdleNext(h.c))]_vars

\* both sessions ended with a keep-alive response on connections of their own;
\* one connection is idle and the global cap of one made release close the
\* other
C25_Witness ==
  /\ cfg_.max_idle_per_origin > 0
  /\ cfg_.max_total_idle = 1
  /\ strand_ = <<>>
  /\ \A k \in 1..2 : /\ sess[k].stage = "done"
                      /\ sess[k].calls[1].conn = k
                      /\ sess[k].calls[1].res = "keep_alive"
  /\ \E c \in 1..2 : /\ InIdle(3 - c)
                      /\ conns[3 - c].age = 0
                      /\ ~conns[c].open
                      /\ conns[c].age = 0
                      /\ ~InIdle(c)

\* C26: the callback of a pooled session gets a response if and only if the
\* code is 0, which only a completed response read gives; every other code
\* names the one stage that failed: 1 the acquire (its resolve, connect or TLS
\* handshake), 2 the CONNECT write, 3 the CONNECT read, 4 a CONNECT reply that
\* is not 200, 5 the TLS upgrade, 6 the TLS handshake, 7 the request write,
\* 8 the response read; and once the session has ended nothing more happens
\* in it.
C26_CodeNamesStage ==
  [][\A s \in DOMAIN sess :
       /\ Ends(s) =>
            LET st == sess[s].stage
                k == sess'[s].calls[1]
            IN /\ Len(sess'[s].calls) = 1
               /\ (k.res # "none") <=> (k.code = 0)
               /\ k.code \in 0..8
               /\ k.code = 0 => st = "read"
               /\ k.code = 1 => (st \in {"resolve", "connect", "tls"} /\ k.conn = 0)
               /\ k.code = 2 => st = "connect_write"
               /\ k.code \in {3, 4} => st = "connect_read"
               /\ k.code = 5 => (st = "connect_read" /\ ~ssl_ctx_)
               /\ k.code = 6 => st = "handshake"
               /\ k.code = 7 => st = "write"
               /\ k.code = 8 => st = "read"
       /\ sess[s].stage = "done" => sess'[s] = sess[s]]_vars

\* one session got its response with code 0, the other failed in the TLS
\* handshake of its tunnel and got code 6 and no response
C26_Witness ==
  \E s, t \in Sessions :
    /\ sess[s].stage = "done"
    /\ sess[s].calls[1].code = 0
    /\ sess[s].calls[1].res # "none"
    /\ sess[t].stage = "done"
    /\ sess[t].calls[1].code = 6
    /\ sess[t].calls[1].res = "none"

\* C27: a session for an https destination D through the proxy holds a
\* connection to the proxy; while it writes the CONNECT for D and reads the
\* reply, the stream is still the plain TCP stream to the proxy; the upgrade
\* to TLS for D and its handshake come after the 200 reply, and the request
\* is written only on the tunnel to D they made; a reply other than 200 ends
\* the session with code 4 and the connection closed.
C27_ConnectThenTlsThenRequest ==
  \A s \in DOMAIN sess :
    (sess[s].proxy /\ IsHttps(sess[s].origin) /\ sess[s].conn # 0)
      => LET k == conns[sess[s].conn]
         IN /\ k.origin = ProxyOrigin
            /\ sess[s].stage \in {"connect_write", "connect_read"}
                 => (~k.ssl /\ k.tunnel = "none")
            /\ sess[s].stage \in {"handshake", "write", "read"}
                 => (k.ssl /\ k.tunnel = sess[s].origin.host)
            /\ (sess[s].stage = "done" /\ sess[s].calls[1].code = 4)
                 => (sess[s].calls[1].closed /\ sess[s].calls[1].res = "none")

\* the first session has completed with a keep-alive response and the second
\* session, run from its callback or later for the same origin (and the same
\* proxy setting), has had its acquire processed while the first session's
\* connection had not been idle longer than idle_keep_alive
SecondAcquired ==
  /\ sess[1].stage = "done"
  /\ sess[1].calls[1].res = "keep_alive"
  /\ sess[2].stage \notin {"new", "acquire"}
  /\ sess[2].origin = sess[1].origin
  /\ sess[2].proxy = sess[1].proxy
  /\ conns[sess[1].calls[1].conn].age <= cfg_.idle_keep_alive

\* the second session was given the first session's connection and no second
\* connection was made
Reused ==
  /\ ~conns[2].born
  /\ sess[2].stage = "done" => sess[2].calls[1].conn = sess[1].calls[1].conn
  /\ sess[2].stage # "done" => sess[2].conn = sess[1].calls[1].conn

\* C28 (as stated): if a session to origin O completes successfully with a
\* keep-alive response and a second session to O is started from its callback
\* or later, within idle_keep_alive, the second session's acquire reuses the
\* first session's connection and no new connect is made.
C28_SecondSessionReuses == SecondAcquired => Reused

\* C28 (amended): the same, for a pool that keeps idle connections
\* (max_idle_per_origin >= 1 and max_total_idle >= 1) and is used by these two
\* sessions only; and under every configuration the second session's acquire
\* reuses the first session's connection whenever release has left it in O's
\* idle deque.
C28_SecondSessionReusesIfKept ==
  /\ []((cfg_.max_idle_per_origin >= 1 /\ cfg_.max_total_idle >= 1 /\ SecondAcquired)
          => Reused)
  /\ [][(/\ AcquireStep
          /\ Head(strand_).s = 2
          /\ sess[1].stage = "done"
          /\ idle_[Head(strand_).origin] = <<sess[1].calls[1].conn>>
          /\ conns[sess[1].calls[1].conn].age <= cfg_.idle_keep_alive)
         => (/\ sess'[2].conn = sess[1].calls[1].conn
             /\ conns'[2] = conns[2]
             /\ ~conns[2].born)]_vars

\* the second session got its response on the connection the first session
\* had made
C28_Witness ==
  /\ SecondAcquired
  /\ sess[2].stage = "done"
  /\ sess[2].calls[1].code = 0
  /\ sess[2].calls[1].conn = 1
  /\ ~conns[2].born

\* C29: when a session calls upgrade_to_ssl() after the 200 reply to its
\* CONNECT, a stream is returned (the session goes on to the handshake) only
\* if the connection held a plain TCP stream and the pool was given a TLS
\* context, and the connection holds a TLS stream afterwards; the call
\* returns no stream (the session ends with code 5) if there is no TLS context
\* or if the connection already held a TLS stream, and the stream is then as
\* it was.
C29_UpgradeOnlyFromPlain ==
  [][\A s \in DOMAIN sess :
       sess[s].stage = "connect_read"
         => LET c == sess[s].conn
            IN /\ sess'[s].stage = "handshake"
                    => (~conns[c].ssl /\ ssl_ctx_ /\ conns'[c].ssl)
               /\ (sess'[s].stage = "done" /\ sess'[s].calls[1].code = 5)
                    => ((~ssl_ctx_ \/ conns[c].ssl) /\ conns'[c].ssl = conns[c].ssl)
               /\ (conns[c].ssl \/ ~ssl_ctx_) => sess'[s].stage # "handshake"]_vars

\* C30: every acquire a session has posted leads to its handler being
\* invoked, with a connection (the session goes on to write) or with an error
\* (the session ends), even if the resolver never answers.
C30_AcquireInvokesHandler ==
  \A s \in Sessions :
    (sess[s].stage = "acquire")
      ~> (sess[s].stage \notin {"acquire", "resolve", "connect", "tls"})

\* ========================================================================
\* Part 6: sql::MysqlSessionState: expect_one_row_borrowed,
\* maybe_one_row_borrowed, expect_one_row_cols_gt and expect_one_value<T>
\* ========================================================================
\* mysql::field_view: its kind() and its value
NullCell == [kind |-> "null", v |-> 0]

\* null, a string, every int64_t and every uint64_t
Cells ==
  {NullCell, [kind |-> "string", v |-> 0]}
    \cup {[kind |-> "int64", v |-> i] :
            i \in (0 - 2^(WordBits - 1))..(2^(WordBits - 1) - 1)}
    \cup {[kind |-> "uint64", v |-> u] : u \in 0..(2^WordBits - 1)}

\* mysql::results over the cells C: at most MaxSets result sets of at most
\* MaxRows rows; the rows of one set have the same number (1..MaxCols) of columns
ResultsOver(C) ==
  LET Rows == UNION {[1..w -> C] : w \in 1..MaxCols}
      Sets == UNION {{rs \in [1..n -> Rows] :
                        \A i \in 1..n : Len(rs[i]) = Len(rs[1])} : n \in 0..MaxRows}
  IN  UNION {[1..n -> Sets] : n \in 0..MaxSets}

\* what a query may have left in the state: any shape over null and one
\* integer, or one row of one cell of any kind and value
QueryResults ==
  ResultsOver({NullCell, [kind |-> "int64", v |-> 1]})
    \cup {<< << <<c>> >> >> : c \in Cells}

RowsInit ==
  /\ results \in QueryResults
  /\ error \in BOOLEAN
  /\ rowCall = NoRowCall

\* an int compared with a size_t is converted to size_t
ToSizeT(i) == i % 2^WordBits

\* static_cast<int64_t> of a uint64_t, static_cast<int> of a size_t
ToSigned(u) == IF u >= 2^(WordBits - 1) THEN u - 2^WordBits ELSE u

\* expect_one_row_borrowed as it would be without the rows().size() != 1 test
ExpectOneRowBorrowed_FirstOfMany(message, result_index, id_column_index) ==
  IF error THEN Err(SQL_FAILED, "diag")
  ELSE IF Len(results) <= ToSizeT(result_index)
    THEN Err(INDEX_OUT_OF_BOUNDS, message)
  ELSE IF results[result_index + 1] = <<>> THEN Err(NO_ROWS, message)
  ELSE IF Len(results[result_index + 1][1]) <= ToSizeT(id_column_index)
    THEN Err(INDEX_OUT_OF_BOUNDS, <<message, "id column index", id_column_index>>)
  ELSE IF results[result_index + 1][1][id_column_index + 1].kind = "null"
    THEN Err(NULL_ID, message)
  ELSE Ok(results[result_index + 1][1])

\* MysqlSessionState::expect_one_row_borrowed (the row_view is the row)
ExpectOneRowBorrowed(message, result_index, id_column_index) ==
  IF error THEN Err(SQL_FAILED, "diag")
  ELSE IF Len(results) <= ToSizeT(result_index)
    THEN Err(INDEX_OUT_OF_BOUNDS, message)
  ELSE IF results[result_index + 1] = <<>> THEN Err(NO_ROWS, message)
  ELSE IF Len(results[result_index + 1]) # 1 THEN Err(MULTIPLE_RESULTS, message)
  ELSE IF Len(results[result_index + 1][1]) <= ToSizeT(id_column_index)
    THEN Err(INDEX_OUT_OF_BOUNDS, <<message, "id column index", id_column_index>>)
  ELSE IF results[result_index + 1][1][id_column_index + 1].kind = "null"
    THEN Err(NULL_ID, message)
  ELSE Ok(results[result_index + 1][1])

\* the helpers are called with indexes from -1 on; no helper changes the state,
\* so one call is followed from every state a query may leave
CallExpectOneRow ==
  \E r \in -1..MaxSets, j \in -1..MaxCols :
    /\ rowCall.fn = "none"
    /\ rowCall' = [fn |-> "expect_one_row", T |-> "row", r |-> r, j |-> j,
                   out |-> ExpectOneRowBorrowed("msg", r, j)]
    /\ UNCHANGED <<results, error, notRows>>

\* maybe_one_row_borrowed with every error taken for an absent row
MaybeOneRowBorrowed_HidesAll(result_index, id_column_index) ==
  LET e == ExpectOneRowBorrowed("maybe_one_row_borrowed", result_index,
                                id_column_index)
  IN  IF e.ok THEN Ok(<<e.val>>) ELSE Ok(<<>>)

\* MysqlSessionState::maybe_one_row_borrowed: std::optional<row_view> is <<>>
\* (nullopt) or <<row>>
MaybeOneRowBorrowed(result_index, id_column_index) ==
  LET e == ExpectOneRowBorrowed("maybe_one_row_borrowed", result_index,
                                id_column_index)
  IN  IF e.ok THEN Ok(<<e.val>>)
      ELSE IF e.code = NO_ROWS \/ e.code = NULL_ID THEN Ok(<<>>)
      ELSE Err(e.code, e.what)

CallMaybeOneRow ==
  \E r \in -1..MaxSets, j \in -1..MaxCols :
    /\ rowCall.fn = "none"
    /\ rowCall' = [fn |-> "maybe_one_row", T |-> "row", r |-> r, j |-> j,
                   out |-> MaybeOneRowBorrowed(r, j)]
    /\ UNCHANGED <<results, error, notRows>>

\* static_cast<int>(row0.size()) >= cols, which takes a row of exactly cols columns
WiderThan_OrEqual(row0, cols) == ToSigned(Len(row0)) >= cols

\* static_cast<int>(row0.size()) > cols
WiderThan(row0, cols) == ToSigned(Len(row0)) > cols

\* the loop of expect_one_row_cols_gt from the i-th result set on
RECURSIVE ColsGtFrom(_, _, _)
ColsGtFrom(i, message, cols) ==
  IF i > Len(results) THEN Err(NO_ROWS, message)
  ELSE IF results[i] = <<>> THEN ColsGtFrom(i + 1, message, cols)
  ELSE IF WiderThan(results[i][1], cols) THEN Ok(results[i][1])
  ELSE ColsGtFrom(i + 1, message, cols)

\* MysqlSessionState::expect_one_row_cols_gt
ExpectOneRowColsGt(message, cols) ==
  IF error THEN Err(SQL_FAILED, "diag") ELSE ColsGtFrom(1, message, cols)

CallExpectOneRowColsGt ==
  \E cols \in -1..MaxCols :
    /\ rowCall.fn = "none"
    /\ rowCall' = [fn |-> "expect_one_row_cols_gt", T |-> "row", r |-> 0,
                   j |-> cols, out |-> ExpectOneRowColsGt("msg", cols)]
    /\ UNCHANGED <<results, error, notRows>>

\* the `if constexpr` chain of expect_one_value<T> for a non-null field
ConvertTo(T, fv, message) ==
  CASE T = "int64" ->
         IF fv.kind = "int64" THEN Ok(fv.v)
         ELSE IF fv.kind = "uint64" THEN Ok(ToSigned(fv.v))
         ELSE Err(BAD_VALUE_ACCESS, <<message, "expecting int64_t">>)
    [] T = "uint64" ->
         IF fv.kind = "uint64" THEN Ok(fv.v)
         ELSE IF fv.kind = "int64"
           THEN IF fv.v < 0
                  THEN Err(BAD_VALUE_ACCESS, <<message, "negative to uint64_t">>)
                  ELSE Ok(fv.v % 2^WordBits)
         ELSE Err(BAD_VALUE_ACCESS, <<message, "expecting uint64_t">>)
    [] T = "bool" ->
         IF fv.kind = "int64" THEN Ok(fv.v # 0)
         ELSE IF fv.kind = "uint64" THEN Ok(fv.v # 0)
         ELSE Err(BAD_VALUE_ACCESS, <<message, "expecting bool (tinyint)">>)
    [] OTHER ->
         IF fv.kind = "string" THEN Ok(fv.v)
         ELSE Err(BAD_VALUE_ACCESS, <<message, "expecting string">>)

\* MysqlSessionState::expect_one_value<T>
ExpectOneValue(T, message, result_index, column_index) ==
  IF error THEN Err(SQL_FAILED, "diag")
  ELSE IF Len(results) <= ToSizeT(result_index)
    THEN Err(INDEX_OUT_OF_BOUNDS, message)
  ELSE IF results[result_index + 1] = <<>> THEN Err(NO_ROWS, message)
  ELSE IF Len(results[result_index + 1][1]) <= ToSizeT(column_index)
    THEN Err(INDEX_OUT_OF_BOUNDS, message)
  ELSE IF results[result_index + 1][1][column_index + 1].kind = "null"
    THEN Err(NULL_ID, message)
  ELSE ConvertTo(T, results[result_index + 1][1][column_index + 1], message)

CallExpectOneValue ==
  \E T \in {"int64", "uint64", "bool", "string"},
     r \in -1..MaxSets, j \in -1..MaxCols :
    /\ rowCall.fn = "none"
    /\ rowCall' = [fn |-> "expect_one_value", T |-> T, r |-> r, j |-> j,
                   out |-> ExpectOneValue(T, "msg", r, j)]
    /\ UNCHANGED <<results, error, notRows>>

RowsNext ==
  \/ CallExpectOneRow
  \/ CallMaybeOneRow
  \/ CallExpectOneRowColsGt
  \/ CallExpectOneValue

InitRows ==
  /\ RowsInit
  /\ TimeoutParked /\ CombParked /\ RetryParked /\ MysqlParked /\ HttpParked
  /\ PureParked /\ PlainParked

SpecRows == InitRows /\ [][RowsNext]_vars

\* ------------------------------------------------------------------------
\* Claims about part 6
\* ------------------------------------------------------------------------
\* result set r exists / row 0 of it has a column j (indexes from 0)
HasSet(r) == r >= 0 /\ r < Len(results)

HasColumn(r, j) == j >= 0 /\ j < Len(results[r + 1][1])

\* C31: expect_one_row(msg, r, j) returns Ok(row) exactly when there is no SQL
\* error, result set r exists and has exactly one row, and that row has more
\* than j columns and a non-null cell j; the Ok value is that row. Otherwise
\* it returns the error of the first condition that fails, in this order:
\* SQL_FAILED, INDEX_OUT_OF_BOUNDS, NO_ROWS, MULTIPLE_RESULTS,
\* INDEX_OUT_OF_BOUNDS (column), NULL_ID.
C31_ExpectOneRow ==
  rowCall.fn = "expect_one_row" =>
    LET r == rowCall.r
        j == rowCall.j
        out == rowCall.out
    IN  IF error THEN ~out.ok /\ out.code = SQL_FAILED
        ELSE IF ~HasSet(r) THEN ~out.ok /\ out.code = INDEX_OUT_OF_BOUNDS
        ELSE IF Len(results[r + 1]) = 0 THEN ~out.ok /\ out.code = NO_ROWS
        ELSE IF Len(results[r + 1]) > 1 THEN ~out.ok /\ out.code = MULTIPLE_RESULTS
        ELSE IF ~HasColumn(r, j) THEN ~out.ok /\ out.code = INDEX_OUT_OF_BOUNDS
        ELSE IF results[r + 1][1][j + 1] = NullCell
          THEN ~out.ok /\ out.code = NULL_ID
        ELSE out.ok /\ out.val = results[r + 1][1]

\* the single row of the second result set was asked for and returned,
\* checked on its second column
C31_Witness ==
  /\ rowCall.fn = "expect_one_row"
  /\ rowCall.r = 1
  /\ rowCall.j = 1
  /\ rowCall.out.ok

\* C32: maybe_one_row(r, j) returns Ok(None) exactly when expect_one_row(r, j)
\* would fail with NO_ROWS or NULL_ID, Ok(Some(row)) with the same row exactly
\* when it would succeed, and every other error of it (SQL_FAILED,
\* INDEX_OUT_OF_BOUNDS, MULTIPLE_RESULTS) unchanged.
C32_MaybeOneRow ==
  rowCall.fn = "maybe_one_row" =>
    LET e == ExpectOneRowBorrowed("maybe_one_row_borrowed", rowCall.r, rowCall.j)
        out == rowCall.out
        absent == ~e.ok /\ e.code \in {NO_ROWS, NULL_ID}
    IN  /\ (out.ok /\ out.val = <<>>) <=> absent
        /\ (out.ok /\ out.val # <<>>) <=> e.ok
        /\ e.ok => out.val = <<e.val>>
        /\ (~e.ok /\ ~absent) =>
             /\ ~out.ok
             /\ out.code = e.code
             /\ out.code \in {SQL_FAILED, INDEX_OUT_OF_BOUNDS, MULTIPLE_RESULTS}
             /\ out.what = e.what

\* the only row of the result set has a null cell j: Ok(None)
C32_Witness ==
  /\ rowCall.fn = "maybe_one_row"
  /\ ~error
  /\ HasSet(rowCall.r)
  /\ Len(results[rowCall.r + 1]) = 1
  /\ rowCall.out.ok
  /\ rowCall.out.val = <<>>

\* the result sets that hold a row of more than cols columns
SetsWider(cols) ==
  {i \in 1..Len(results) :
     \E k \in 1..Len(results[i]) : Len(results[i][k]) > cols}

\* C33: expect_one_row_cols_gt(msg, cols) returns SQL_FAILED on an SQL error;
\* otherwise the first row, in the order of the result sets, whose column
\* count is strictly greater than cols (a row of exactly cols columns never
\* qualifies), and NO_ROWS when there is none.
C33_FirstRowWiderThanCols ==
  rowCall.fn = "expect_one_row_cols_gt" =>
    LET cols == rowCall.j
        out == rowCall.out
    IN  IF error THEN ~out.ok /\ out.code = SQL_FAILED
        ELSE IF SetsWider(cols) = {} THEN ~out.ok /\ out.code = NO_ROWS
        ELSE LET i == CHOOSE x \in SetsWider(cols) : \A y \in SetsWider(cols) : x <= y
                 k == CHOOSE x \in 1..Len(results[i]) :
                        /\ Len(results[i][x]) > cols
                        /\ \A y \in 1..(x - 1) : Len(results[i][y]) <= cols
             IN  /\ out.ok
                 /\ out.val = results[i][k]
                 /\ Len(out.val) > cols

\* the first result set has rows of exactly cols columns and is passed over
\* for the second
C33_Witness ==
  /\ rowCall.fn = "expect_one_row_cols_gt"
  /\ ~error
  /\ Len(results) = 2
  /\ results[1] # <<>>
  /\ Len(results[1][1]) = rowCall.j
  /\ rowCall.out.ok
  /\ rowCall.out.val = results[2][1]

\* the call of expect_one_value<T> got as far as an integer cell
ReadsIntegerCell ==
  /\ rowCall.fn = "expect_one_value"
  /\ ~error
  /\ HasSet(rowCall.r)
  /\ results[rowCall.r + 1] # <<>>
  /\ HasColumn(rowCall.r, rowCall.j)
  /\ results[rowCall.r + 1][1][rowCall.j + 1].kind \in {"int64", "uint64"}

\* C34: for an integer cell c, expect_one_value<bool> returns Ok(c != 0);
\* expect_one_value<uint64_t> returns Ok(c) when c >= 0 and BAD_VALUE_ACCESS
\* when c is negative; expect_one_value<int64_t> returns Ok of a value
\* numerically equal to c or an error, never a different number.
C34_IntegerValues ==
  ReadsIntegerCell =>
    LET c == results[rowCall.r + 1][1][rowCall.j + 1].v
        out == rowCall.out
    IN  CASE rowCall.T = "bool" -> out.ok /\ out.val = (c # 0)
          [] rowCall.T = "uint64" ->
               IF c >= 0 THEN out.ok /\ out.val = c
               ELSE ~out.ok /\ out.code = BAD_VALUE_ACCESS
          [] rowCall.T = "int64" -> out.ok => out.val = c
          [] OTHER -> TRUE

\* ------------------------------------------------------------------------
\* Claims about part 5, continued
\* ------------------------------------------------------------------------
\* the origin a session acquires its connection for, and the stage its acquire
\* handler leaves it in
AcquireOrigin(s) == IF sess[s].proxy THEN ProxyOrigin ELSE sess[s].origin

JustAcquired(s) ==
  /\ sess[s].conn # 0
  /\ sess[s].stage = IF sess[s].proxy /\ IsHttps(sess[s].origin)
                       THEN "connect_write" ELSE "write"

\* C35: a connection that was turned into a CONNECT tunnel with TLS toward a
\* destination D is never handed, from the idle deque of the proxy's origin,
\* to a session whose destination differs from D: every connection the
\* handler of acquire(O) receives is in the transport state of a fresh direct
\* connection to O (no tunnel, and the stream prepare_stream gives for O).
C35_AcquiredIsFresh ==
  \A s \in DOMAIN sess :
    JustAcquired(s) =>
      LET k == conns[sess[s].conn]
      IN  /\ k.tunnel \in {"none", sess[s].origin.host}
          /\ k.tunnel = "none"
          /\ k.ssl = (IsHttps(AcquireOrigin(s)) /\ ssl_ctx_)

\* C36: every connection the handler of acquire receives for an https origin
\* is a TLS stream (whose handshake has completed), never a plain TCP stream,
\* whatever TLS context the pool was given, none included.
C36_HttpsIsTls ==
  \A s \in DOMAIN sess :
    (JustAcquired(s) /\ IsHttps(AcquireOrigin(s))) => conns[sess[s].conn].ssl

\* ========================================================================
\* Part 7: IO<T>::pure(value) run more than once, directly, through clone()
\* or through a copy
\* ========================================================================
\* pure(value): val = std::make_shared<T>(std::move(value)), captured by the
\* thunk; 0 is T's empty value ("" for a std::string)
PureInit ==
  /\ pureT \in {"trivial", "movable"}
  /\ pureV \in Values
  /\ pureVal = pureV
  /\ pureRuns = <<>>

\* what std::move(*val) into Ok(T value) leaves in *val: a trivially copyable
\* T is copied; a T with a move constructor (std::string, std::vector, ...) is
\* left valid but unspecified
MovedFrom(T, v) == IF T = "trivial" THEN {v} ELSE Values \cup {0}

\* run(cb) of the IO, of a clone() of it or of a copy of it: each holds a copy
\* of the thunk, and every copy of the thunk holds the same shared_ptr val, so
\* each run is cb(IOResult::Ok(std::move(*val)))
PureRun(io) ==
  /\ Len(pureRuns) < MaxRuns
  /\ pureRuns' = Append(pureRuns, [io |-> io, res |-> Ok(pureVal)])
  /\ pureVal' \in MovedFrom(pureT, pureVal)
  /\ UNCHANGED <<pureT, pureV, notPure>>

PureNext == \E io \in {"original", "clone", "copy"} : PureRun(io)

InitPure ==
  /\ PureInit
  /\ TimeoutParked /\ CombParked /\ RetryParked /\ MysqlParked /\ HttpParked
  /\ RowsParked /\ PlainParked

SpecPure == InitPure /\ [][PureNext]_vars

\* C37: running the same IO::pure(v), or a clone or a copy of it, more than
\* once delivers Ok(v), with the same v, on every run.
C37_PureIsRepeatable ==
  \A i \in 1..Len(pureRuns) : pureRuns[i].res = Ok(pureV)

\* C38: in every reachable state each connection in an idle deque is not busy
\* and is stored under the key of its own origin, no connection appears more
\* than once across the idle deques, and a connection that was handed to an
\* acquire handler is in no idle deque until it is released.
C38_IdleDequesWellFormed ==
  /\ \A o \in Origins : \A i \in 1..Len(idle_[o]) :
       /\ ~conns[idle_[o][i]].busy
       /\ conns[idle_[o][i]].origin = o
  /\ \A o, p \in Origins : \A i \in 1..Len(idle_[o]) : \A j \in 1..Len(idle_[p]) :
       idle_[o][i] = idle_[p][j] => (o = p /\ i = j)
  /\ \A s \in DOMAIN sess :
       (sess[s].conn # 0 /\ sess[s].stage # "done") => ~InIdle(sess[s].conn)

\* a session works on a connection its acquire took from an idle deque
C38_Witness ==
  \E s \in DOMAIN sess :
    /\ sess[s].conn \notin {0, s}
    /\ sess[s].stage \notin {"new", "done"}
    /\ conns[sess[s].conn].busy

\* C39: with the reaper enabled, between strand handlers at most one reaper
\* wait is outstanding (a handler starts one only when none is outstanding),
\* reaper_armed_ is true exactly when one is outstanding, and whenever an idle
\* connection exists a reaper wait is outstanding.
C39_ReaperArmedIffWaiting ==
  /\ [](cfg_.idle_reap_interval > 0 =>
          /\ reaper_armed_ <=> reap_timer_ >= 0
          /\ TotalIdle(idle_) > 0 => reap_timer_ >= 0)
  /\ [][(cfg_.idle_reap_interval > 0 /\ strand_' # strand_
           /\ reap_timer_' # reap_timer_ /\ reap_timer_' >= 0)
          => (reap_timer_ = -1 /\ ~reaper_armed_)]_vars

\* an idle connection exists, the reaper's wait has expired and its handler
\* is about to run
C39_Witness ==
  /\ cfg_.idle_reap_interval > 0
  /\ TotalIdle(idle_) > 0
  /\ reaper_armed_
  /\ reap_timer_ = 0

\* ========================================================================
\* Part 8: client_async::session (session_plain / session_ssl), not pooled
\* ========================================================================
\* the constructor's arguments: a proxy setting or none, no_modify_req, the
\* kind of session, and whether the url names a port
PlainInit ==
  plain \in [proxy : BOOLEAN, no_modify_req : BOOLEAN, ssl : BOOLEAN,
             port : {"", "8080"}, host : {"unset"}, stage : {"new"},
             net : {<<>>}, calls : {<<>>}]

\* deliver(r, code)
PlainDeliver(p, res, code) ==
  [p EXCEPT !.stage = "done", !.calls = Append(@, [res |-> res, code |-> code])]

\* an operation op toward `to` is started on the network and waited for in
\* stage st
Started(p, st, op, to) ==
  [p EXCEPT !.stage = st, !.net = Append(@, [op |-> op, to |-> to])]

\* do_request: the request is written to derived().stream()
DoRequest(p) == Started(p, "write", "request", "stream")

\* after_connect: session_plain goes on to do_request; session_ssl sets the
\* SNI name (code 9 if that fails) and starts the handshake
AfterConnect(p) ==
  IF p.ssl
    THEN {PlainDeliver(p, "none", 9), Started(p, "handshake", "handshake", "dest")}
    ELSE {DoRequest(p)}

\* session::run: the port is the url's or default_port; with no_modify_req it
\* returns do_resolve(url host, port) at once; otherwise it sets the Host
\* header and calls do_resolve_proxy with a proxy setting, do_resolve without
PlainRun ==
  /\ plain.stage = "new"
  /\ LET port == IF plain.port = "" THEN (IF plain.ssl THEN "443" ELSE "80")
                                    ELSE plain.port
         p == [plain EXCEPT !.host = port]
     IN plain' = IF plain.no_modify_req
                   THEN Started(plain, "resolve", "resolve", "dest")
                   ELSE IF p.proxy
                     THEN Started(p, "resolve_proxy", "resolve", "proxy")
                     ELSE Started(p, "resolve", "resolve", "dest")
  /\ UNCHANGED notPlain

\* the handlers of do_resolve_proxy, do_connect_proxy_server, do_request_proxy
\* and do_read_proxy_response: an error ends the run with 1, 1, 2, 3, a reply
\* other than 200 with 4
PlainProxyLeg ==
  /\ plain.stage \in {"resolve_proxy", "connect_proxy", "proxy_write", "proxy_read"}
  /\ \E out \in {"ok", "error", "other"} :
       /\ out = "other" => plain.stage = "proxy_read"
       /\ plain' \in
            CASE out = "error" ->
                   {PlainDeliver(plain, "none",
                                 CASE plain.stage = "proxy_write" -> 2
                                   [] plain.stage = "proxy_read" -> 3
                                   [] OTHER -> 1)}
              [] out = "other" -> {PlainDeliver(plain, "none", 4)}
              [] plain.stage = "resolve_proxy" ->
                   {Started(plain, "connect_proxy", "connect", "proxy")}
              [] plain.stage = "connect_proxy" ->
                   {Started(plain, "proxy_write", "CONNECT", "dest")}
              [] plain.stage = "proxy_write" -> {[plain EXCEPT !.stage = "proxy_read"]}
              [] OTHER -> AfterConnect(plain)
  /\ UNCHANGED notPlain

\* the handlers of do_resolve (its watchdog cancels the resolver, which is an
\* error too) and do_connect: codes 1 and 5
PlainDirectLeg ==
  /\ plain.stage \in {"resolve", "connect"}
  /\ \E ok \in BOOLEAN :
       plain' \in
         IF ~ok THEN {PlainDeliver(plain, "none", IF plain.stage = "resolve" THEN 1 ELSE 5)}
         ELSE IF plain.stage = "resolve"
           THEN {Started(plain, "connect", "connect", "dest")}
         ELSE AfterConnect(plain)
  /\ UNCHANGED notPlain

\* the handlers of the handshake, of do_request and of do_read: codes 10, 6
\* and 8 (with whatever was parsed); a file_body session without a body file
\* ends with 7 before it reads
PlainRequestLeg ==
  /\ plain.stage \in {"handshake", "write", "read"}
  /\ \E out \in {"ok", "error", "other"} :
       /\ out = "other" => plain.stage = "write"
       /\ plain' =
            CASE plain.stage = "handshake" ->
                   IF out = "ok" THEN DoRequest(plain)
                                 ELSE PlainDeliver(plain, "none", 10)
              [] plain.stage = "write" ->
                   IF out = "ok" THEN [plain EXCEPT !.stage = "read"]
                   ELSE IF out = "error" THEN PlainDeliver(plain, "none", 6)
                   ELSE PlainDeliver(plain, "none", 7)
              [] OTHER ->
                   IF out = "ok" THEN PlainDeliver(plain, "response", 0)
                                 ELSE PlainDeliver(plain, "response", 8)
  /\ UNCHANGED notPlain

PlainNext ==
  \/ PlainRun
  \/ PlainProxyLeg
  \/ PlainDirectLeg
  \/ PlainRequestLeg

InitPlain ==
  /\ PlainInit
  /\ TimeoutParked /\ CombParked /\ RetryParked /\ MysqlParked /\ HttpParked
  /\ RowsParked /\ PureParked

SpecPlain == InitPlain /\ [][PlainNext]_vars

\* C40: with a proxy setting on a session that is not pooled, every run()
\* reaches the destination only through the proxy: it resolves the proxy,
\* connects to it and sends CONNECT before the request; the destination host
\* is never resolved or connected to directly, whatever the other options
\* are, no_modify_req included.
C40_OnlyThroughProxy ==
  plain.proxy =>
    /\ \A i \in 1..Len(plain.net) :
         plain.net[i].op \in {"resolve", "connect"} => plain.net[i].to = "proxy"
    /\ \A i \in 1..Len(plain.net) :
         plain.net[i].op = "request"
           => \E j \in 1..(i - 1) : plain.net[j].op = "CONNECT"

====
